---- MODULE Spec2Model ----
(***************************************************************************)
(* AgriStock Pro: the planning calculator (calculateItemPlanning), the     *)
(* alert detector (detectAlerts) and the application shell that runs them  *)
(* (alert detection effect, refreshData, Alerts page actions), the cached   *)
(* database connection (AgriDB) and the writers of the items and sales     *)
(* stores (Excel imports, Sales Entry).                                    *)
(*                                                                         *)
(* JavaScript numbers are modelled as exact rationals [n, d] (d > 0, in    *)
(* lowest terms); the inputs are integers, 30.4 is 152/5 and 0.8 is 4/5.   *)
(* Timestamps (Date.getTime()) are integers counted in ticks.              *)
(***************************************************************************)
EXTENDS Integers, Sequences, FiniteSets, TLC

\* ------------------------------------------------------------------ bounds
MaxLots == 2          \* longest lots array given to calculateItemPlanning
MaxSales == 2         \* longest sales array given to calculateItemPlanning
HourTicks == 2        \* clock resolution: ticks per hour (the code counts ms)
MaxAlerts == 2        \* longest existingAlerts array given to detectAlerts
MaxTime == 4          \* last clock value (ticks)
MaxAppTime == 2       \* last clock value of an application run (ticks)
MaxStored == 2        \* most alerts the application creates in one run
MaxRefresh == 1       \* most refreshData calls in flight at once
MaxRows == 2          \* most rows of an imported Excel file
MaxIds == 3           \* most records created with uid() in one run
MaxOpens == 2         \* most indexedDB.open requests in one run
MaxCalls == 2         \* most AgriDB calls in flight at once
MaxEdits == 2         \* most updateSettings calls in flight at once

\* "no value": expiryDate null, shelfLifeDays / lastSentAt undefined
NULL == -1

\* 1000 * 3600 * 24 ms, in ticks
DayTicks == HourTicks * 24

\* --------------------------------------------------------- number helpers
Abs(x) == IF x < 0 THEN -x ELSE x

RECURSIVE GCD(_, _)
GCD(a, b) == IF b = 0 THEN a ELSE GCD(b, a % b)

\* the rational n/d (d > 0) in lowest terms
Rat(n, d) == LET g == GCD(Abs(n), d) IN [n |-> n \div g, d |-> d \div g]

R(i) == [n |-> i, d |-> 1]

RAdd(x, y) == Rat(x.n * y.d + y.n * x.d, x.d * y.d)

RSub(x, y) == Rat(x.n * y.d - y.n * x.d, x.d * y.d)

RMul(x, y) == Rat(x.n * y.n, x.d * y.d)

\* x / y for y # 0 (every division of the code is guarded or by a constant)
RDiv(x, y) ==
  IF y.n > 0 THEN Rat(x.n * y.d, x.d * y.n) ELSE Rat(-(x.n * y.d), x.d * (-y.n))

RLt(x, y) == x.n * y.d < y.n * x.d

RLe(x, y) == x.n * y.d <= y.n * x.d

\* Math.max / Math.min / Math.ceil
RMax(x, y) == IF RLt(x, y) THEN y ELSE x

RMin(x, y) == IF RLt(y, x) THEN y ELSE x

RCeil(x) == R(-((-x.n) \div x.d))

\* x is an integer multiple of the integer p > 0
RIsMultiple(x, p) == x.d = 1 /\ x.n % p = 0

\* ------------------------------------------------- calculateItemPlanning
\* arr.reduce((sum, e) => sum + f(e), 0) for the two sums of the code
RECURSIVE SumQuantityRemaining(_)
SumQuantityRemaining(ls) ==
  IF ls = <<>> THEN 0
  ELSE Head(ls).quantityRemaining + SumQuantityRemaining(Tail(ls))

RECURSIVE SumQuantitySold(_)
SumQuantitySold(ss) ==
  IF ss = <<>> THEN 0 ELSE Head(ss).quantitySold + SumQuantitySold(Tail(ss))

\* faulty variant: the status of the lot is not tested
activeLotsOf_anyStatus(item, lots) == SelectSeq(lots, LAMBDA l : l.itemId = item.id)

\* lots of the item with status available
activeLotsOf(item, lots) ==
  SelectSeq(lots, LAMBDA l : l.itemId = item.id /\ l.status = "available")

\* faulty variant: a lot that expires exactly now still counts as stock
IsNonExpired_orEqual(l, currentDate) ==
  IF l.expiryDate # NULL THEN l.expiryDate >= currentDate.time ELSE TRUE

\* l.expiryDate ? new Date(l.expiryDate) > currentDate : true
IsNonExpired(l, currentDate) ==
  IF l.expiryDate # NULL THEN l.expiryDate > currentDate.time ELSE TRUE

\* the filter of expiringSoonLots: 0 < diff <= expiryWarningDays, diff in days
IsExpiringSoon(l, settings, currentDate) ==
  IF l.expiryDate = NULL THEN FALSE
  ELSE LET diff == Rat(l.expiryDate - currentDate.time, DayTicks)
       IN  RLe(diff, R(settings.expiryWarningDays)) /\ RLt(R(0), diff)

\* new Date(year, month - i, 1) formatted as YYYY-MM: the pair <<year, 1..12>>
MonthBack(currentDate, i) ==
  LET k == currentDate.year * 12 + currentDate.month - i
  IN  <<k \div 12, (k % 12) + 1>>

\* faulty variant: the list is not reversed, the current month comes first
last6MonthsOf_newestFirst(currentDate) ==
  [idx \in 1..6 |-> MonthBack(currentDate, idx - 1)]

\* months i = 0..5 pushed, then reversed: oldest first
last6MonthsOf(currentDate) == [idx \in 1..6 |-> MonthBack(currentDate, 6 - idx)]

\* itemSales.find(s => s.month === month)?.quantitySold || 0
RECURSIVE monthSaleOf(_, _)
monthSaleOf(itemSales, month) ==
  IF itemSales = <<>> THEN 0
  ELSE IF Head(itemSales).month = month THEN Head(itemSales).quantitySold
  ELSE monthSaleOf(Tail(itemSales), month)

\* settings.weights[idx] || 0
weightAt(settings, idx) ==
  IF idx <= Len(settings.weights) THEN settings.weights[idx] ELSE 0

RECURSIVE weightedSumUpTo(_, _, _, _)
weightedSumUpTo(itemSales, settings, months, idx) ==
  IF idx = 0 THEN 0
  ELSE weightedSumUpTo(itemSales, settings, months, idx - 1)
       + monthSaleOf(itemSales, months[idx]) * weightAt(settings, idx)

RECURSIVE weightSumUpTo(_, _)
weightSumUpTo(settings, idx) ==
  IF idx = 0 THEN 0 ELSE weightSumUpTo(settings, idx - 1) + weightAt(settings, idx)

\* faulty variant: the simple average divides by the six months of the window
avgMonthlyDemandOf_overSixMonths(itemSales, settings, currentDate) ==
  IF settings.forecastMethod = "simpleAverage6Months"
  THEN Rat(SumQuantitySold(itemSales), 6)
  ELSE IF settings.forecastMethod = "weightedAverage"
  THEN LET months == last6MonthsOf(currentDate)
           weightedSum == weightedSumUpTo(itemSales, settings, months, 6)
           weightSum == weightSumUpTo(settings, 6)
       IN  IF weightSum > 0 THEN Rat(weightedSum, weightSum) ELSE R(0)
  ELSE R(0)

\* the two forecast methods: totalSold / Math.max(itemSales.length, 1), or
\* weightedSum / weightSum over last6Months
avgMonthlyDemandOf(itemSales, settings, currentDate) ==
  IF settings.forecastMethod = "simpleAverage6Months"
  THEN LET totalSold == SumQuantitySold(itemSales)
       IN  IF Len(itemSales) > 0
           THEN Rat(totalSold, IF Len(itemSales) > 1 THEN Len(itemSales) ELSE 1)
           ELSE R(0)
  ELSE IF settings.forecastMethod = "weightedAverage"
  THEN LET months == last6MonthsOf(currentDate)
           weightedSum == weightedSumUpTo(itemSales, settings, months, 6)
           weightSum == weightSumUpTo(settings, 6)
       IN  IF weightSum > 0 THEN Rat(weightedSum, weightSum) ELSE R(0)
  ELSE R(0)

\* faulty variant: the MOQ test reads the quantity as already large enough
ApplyMoq_skipped(suggested, item) == suggested

\* faulty variant: the test suggested > 0 is missing, so 0 is raised to moq too
ApplyMoq_raisesZero(suggested, item) ==
  IF RLt(suggested, R(item.moq)) THEN R(item.moq) ELSE suggested

\* if (suggested > 0 && suggested < item.moq) suggested = item.moq
ApplyMoq(suggested, item) ==
  IF RLt(R(0), suggested) /\ RLt(suggested, R(item.moq)) THEN R(item.moq)
  ELSE suggested

\* faulty variant: the test suggested > 0 is missing and at least one pack is ordered
ApplyPack_atLeastOnePack(suggested, item) ==
  IF item.packSize > 0
  THEN RMul(RMax(R(1), RCeil(RDiv(suggested, R(item.packSize)))), R(item.packSize))
  ELSE suggested

\* if (suggested > 0 && item.packSize > 0) round up to a multiple of packSize
ApplyPack(suggested, item) ==
  IF RLt(R(0), suggested) /\ item.packSize > 0
  THEN RMul(RCeil(RDiv(suggested, R(item.packSize))), R(item.packSize))
  ELSE suggested

\* dailyDemand > 0 ? availableStock / dailyDemand : 999
CoverOf(stock, dailyDemand) ==
  IF RLt(R(0), dailyDemand) THEN RDiv(stock, dailyDemand) ELSE R(999)

\* faulty variant: the raw quantity without Math.max(0, ...)
rawSuggestedOf_unclamped(reorderPoint, dailyDemand, settings, availableStock) ==
  RSub(RAdd(reorderPoint, RMul(dailyDemand, R(settings.reviewPeriodDays))),
       availableStock)

\* Math.max(0, reorderPoint + dailyDemand * reviewPeriodDays - availableStock)
rawSuggestedOf(reorderPoint, dailyDemand, settings, availableStock) ==
  RMax(R(0), RSub(RAdd(reorderPoint, RMul(dailyDemand, R(settings.reviewPeriodDays))),
                  availableStock))

\* faulty variant: the operands of the subtraction swapped
capQtyOf_swapped(dailyDemand, item, availableStock) ==
  LET shelfLifeDays == IF item.shelfLifeDays = NULL THEN 365 ELSE item.shelfLifeDays
      maxFreshStock == RMul(RMul(dailyDemand, R(shelfLifeDays)), Rat(4, 5))
  IN  RMax(R(0), RSub(availableStock, maxFreshStock))

\* faulty variant: the whole shelf life instead of 80% of it
capQtyOf_fullShelfLife(dailyDemand, item, availableStock) ==
  LET shelfLifeDays == IF item.shelfLifeDays = NULL THEN 365 ELSE item.shelfLifeDays
      maxFreshStock == RMul(dailyDemand, R(shelfLifeDays))
  IN  RMax(R(0), RSub(maxFreshStock, availableStock))

\* the freshness cap: Math.max(0, dailyDemand * (shelfLifeDays ?? 365) * 0.8 - stock)
capQtyOf(dailyDemand, item, availableStock) ==
  LET shelfLifeDays == IF item.shelfLifeDays = NULL THEN 365 ELSE item.shelfLifeDays
      maxFreshStock == RMul(RMul(dailyDemand, R(shelfLifeDays)), Rat(4, 5))
  IN  RMax(R(0), RSub(maxFreshStock, availableStock))

\* faulty variant: a lead time of 0 is kept instead of replaced by the default
leadTimeOf_zeroKept(item, settings) == item.leadTimeDays

\* item.leadTimeDays || settings.defaultLeadTimeDays
leadTimeOf(item, settings) ==
  IF item.leadTimeDays # 0 THEN item.leadTimeDays ELSE settings.defaultLeadTimeDays

\* faulty variant: both comparisons are <=
lowStockFlagOf_notStrict(settings, daysCover, availableStock, reorderPoint) ==
  IF settings.lowStockRule = "belowDaysCover"
  THEN RLe(daysCover, R(settings.lowStockDaysCoverThreshold))
  ELSE RLe(availableStock, reorderPoint)

\* the rule selected by settings.lowStockRule
lowStockFlagOf(settings, daysCover, availableStock, reorderPoint) ==
  IF settings.lowStockRule = "belowDaysCover"
  THEN RLt(daysCover, R(settings.lowStockDaysCoverThreshold))
  ELSE RLt(availableStock, reorderPoint)

calculateItemPlanning(item, lots, sales, settings, currentDate) ==
  LET activeLots == activeLotsOf(item, lots)
      nonExpiredLots == SelectSeq(activeLots, LAMBDA l : IsNonExpired(l, currentDate))
      expiringSoonLots ==
        SelectSeq(activeLots, LAMBDA l : IsExpiringSoon(l, settings, currentDate))
      availableStock == R(SumQuantityRemaining(nonExpiredLots))
      itemSales == SelectSeq(sales, LAMBDA s : s.itemId = item.id)
      avgMonthlyDemand == avgMonthlyDemandOf(itemSales, settings, currentDate)
      dailyDemand == RDiv(avgMonthlyDemand, Rat(152, 5))
      safetyStock == RMul(dailyDemand, R(settings.safetyStockDays))
      leadTime == leadTimeOf(item, settings)
      reorderPoint == RAdd(RMul(dailyDemand, R(leadTime)), safetyStock)
      preCapSuggested == rawSuggestedOf(reorderPoint, dailyDemand, settings, availableStock)
      capQty == capQtyOf(dailyDemand, item, availableStock)
      capped == RMin(preCapSuggested, capQty)
      freshnessCapApplied == RLt(capped, preCapSuggested)
      suggested == ApplyPack(ApplyMoq(capped, item), item)
      daysCover == CoverOf(availableStock, dailyDemand)
      projectedDaysCoverAfterOrder == CoverOf(RAdd(availableStock, suggested), dailyDemand)
      lowStockFlag == lowStockFlagOf(settings, daysCover, availableStock, reorderPoint)
  IN  [item |-> item,
       lots |-> activeLots,
       sales |-> itemSales,
       availableStock |-> availableStock,
       avgMonthlyDemand |-> avgMonthlyDemand,
       dailyDemand |-> dailyDemand,
       safetyStock |-> safetyStock,
       reorderPoint |-> reorderPoint,
       suggestedOrderQty |-> suggested,
       freshnessCapApplied |-> freshnessCapApplied,
       freshnessCapQty |-> capQty,
       projectedDaysCoverAfterOrder |-> projectedDaysCoverAfterOrder,
       daysCover |-> daysCover,
       lowStockFlag |-> lowStockFlag,
       expiringSoonLots |-> expiringSoonLots]

\* ------------------------------------------------------------ detectAlerts
\* faulty variant: only the cooldown of a sent alert suppresses, a pending alert does not
isSuppressing_cooldownOnly(a, itemId, type, settings, now) ==
  /\ a.itemId = itemId
  /\ a.type = type
  /\ a.lastSentAt # NULL
  /\ RLt(Rat(now - a.lastSentAt, HourTicks), R(settings.notificationCooldownHours))

\* faulty variant: the cooldown is counted from createdAt instead of lastSentAt
isSuppressing_fromCreatedAt(a, itemId, type, settings, now) ==
  /\ a.itemId = itemId
  /\ a.type = type
  /\ \/ a.status = "pending"
     \/ RLt(Rat(now - a.createdAt, HourTicks), R(settings.notificationCooldownHours))

\* faulty variant: an alert of any product suppresses
isSuppressing_anyProduct(a, itemId, type, settings, now) ==
  /\ a.type = type
  /\ \/ a.status = "pending"
     \/ /\ a.lastSentAt # NULL
        /\ RLt(Rat(now - a.lastSentAt, HourTicks), R(settings.notificationCooldownHours))

\* faulty variant: an alert of either type suppresses
isSuppressing_anyType(a, itemId, type, settings, now) ==
  /\ a.itemId = itemId
  /\ \/ a.status = "pending"
     \/ /\ a.lastSentAt # NULL
        /\ RLt(Rat(now - a.lastSentAt, HourTicks), R(settings.notificationCooldownHours))

\* the predicate of existingAlerts.find(...), the same for both alert types:
\* a.itemId === view.item.id && a.type === type && (a.status === 'pending' ||
\*   (a.lastSentAt && (now - lastSentAt) / (1000 * 3600) < notificationCooldownHours))
isSuppressing(a, itemId, type, settings, now) ==
  /\ a.itemId = itemId
  /\ a.type = type
  /\ \/ a.status = "pending"
     \/ /\ a.lastSentAt # NULL
        /\ RLt(Rat(now - a.lastSentAt, HourTicks), R(settings.notificationCooldownHours))

\* existingAlerts.find(...) found an alert
hasRecentAlert(existingAlerts, itemId, type, settings, now) ==
  \E i \in 1..Len(existingAlerts) :
    isSuppressing(existingAlerts[i], itemId, type, settings, now)

\* the alert pushed to newAlerts; id is `${type}_${itemId}_${now.getTime()}`
newAlertOf(v, type, now) ==
  [id |-> <<type, v.item.id, now>>,
   createdAt |-> now,
   itemId |-> v.item.id,
   type |-> type,
   message |-> IF type = "expiry" THEN <<"Expiry Warning", v.item.id, v.expiringSoonLots>>
               ELSE <<"Low Stock", v.item.id>>,
   status |-> "pending",
   lastSentAt |-> NULL]

\* faulty variant: one expiry alert for each expiring lot
alertsForView_perLot(v, existingAlerts, settings, now) ==
  (IF v.lowStockFlag /\ ~hasRecentAlert(existingAlerts, v.item.id, "lowStock", settings, now)
   THEN <<newAlertOf(v, "lowStock", now)>> ELSE <<>>)
  \o
  (IF ~hasRecentAlert(existingAlerts, v.item.id, "expiry", settings, now)
   THEN [k \in 1..Len(v.expiringSoonLots) |-> newAlertOf(v, "expiry", now)] ELSE <<>>)

\* the body of planningViews.forEach: the alerts pushed for one view
alertsForView(v, existingAlerts, settings, now) ==
  (IF v.lowStockFlag /\ ~hasRecentAlert(existingAlerts, v.item.id, "lowStock", settings, now)
   THEN <<newAlertOf(v, "lowStock", now)>> ELSE <<>>)
  \o
  (IF Len(v.expiringSoonLots) > 0
      /\ ~hasRecentAlert(existingAlerts, v.item.id, "expiry", settings, now)
   THEN <<newAlertOf(v, "expiry", now)>> ELSE <<>>)

\* now is the value of new Date() read at the start of the call
RECURSIVE detectAlerts(_, _, _, _)
detectAlerts(planningViews, existingAlerts, settings, now) ==
  IF planningViews = <<>> THEN <<>>
  ELSE alertsForView(Head(planningViews), existingAlerts, settings, now)
       \o detectAlerts(Tail(planningViews), existingAlerts, settings, now)

\* ------------------------------------------------- the application shell
\* faulty variant: the duplicate filter of the effect without the createdAt fallback
isRecentForApp_lastSentOnly(a, na, settings, now) ==
  isSuppressing(a, na.itemId, na.type, settings, now)

\* the predicate of currentAlerts.find(...) in the detection effect: same
\* product and type, and pending or (lastSentAt || createdAt) within the cooldown
isRecentForApp(a, na, settings, now) ==
  /\ a.itemId = na.itemId
  /\ a.type = na.type
  /\ \/ a.status = "pending"
     \/ LET t == IF a.lastSentAt # NULL THEN a.lastSentAt ELSE a.createdAt
        IN  RLt(Rat(now - t, HourTicks), R(settings.notificationCooldownHours))

\* newAlerts.filter(na => !currentAlerts.find(...))
uniqueAlertsOf(newAlerts, currentAlerts, settings, now) ==
  SelectSeq(newAlerts,
            LAMBDA na : ~\E i \in 1..Len(currentAlerts) :
                           isRecentForApp(currentAlerts[i], na, settings, now))

\* handleAction: the record written for alertObj (recipientsSnapshot left out)
updatedAlertOf(alertObj, status, now) ==
  [alertObj EXCEPT !.status = status,
                   !.lastSentAt = IF status = "sent" THEN now ELSE alertObj.lastSentAt]

\* store.put(data) on a store with keyPath 'id'
PutInto(store, data) == {x \in store : x.id # data.id} \cup {data}

\* the order of the keys `${type}_${itemId}_${time}` in the store
KeyLe(a, b) ==
  LET rank(x) == <<IF x.type = "expiry" THEN 0 ELSE 1,
                   IF x.itemId = "p1" THEN 0 ELSE 1, x.createdAt>>
      ka == rank(a)
      kb == rank(b)
  IN  \/ ka[1] < kb[1]
      \/ ka[1] = kb[1] /\ ka[2] < kb[2]
      \/ ka[1] = kb[1] /\ ka[2] = kb[2] /\ ka[3] <= kb[3]

\* store.getAll(): the records in key order
RECURSIVE getAllOf(_)
getAllOf(store) ==
  IF store = {} THEN <<>>
  ELSE LET first == CHOOSE x \in store : \A y \in store : KeyLe(x, y)
       IN  <<first>> \o getAllOf(store \ {first})

\* ------------------------------------------------------------------ state
VARIABLES
  \* the planning calculator: its arguments and its results
  item, lots, sales, settings, currentDate, view, item2, view2, planPc,
  \* the alert detector: its arguments, the clock and the results of two calls
  planningViews, existingAlerts, now, calledAt, newAlerts, newAlerts2, detPc,
  \* the application: the alert list (React state), the alerts store of the
  \* database, its queue of requests, the refreshData calls and webhook
  \* requests in flight, the pending run of the detection effect
  alerts, dbAlerts, dbQueue, refreshes, webhooks, effectDue, loading, dbView,
  \* the product list (React state; lots and sales above are its companions),
  \* the items, lots and sales stores of the database, the uid() of the imports
  items, dbItems, dbLots, dbSales, nextUid,
  \* AgriDB: the cached promise, the open requests issued, the calls in flight
  dbPromise, opens, calls,
  \* the settings store of the database and the updateSettings calls in flight
  \* (settings above is the React state the Settings page is rendered from)
  dbSettings, settingsCalls

storeVars == <<items, dbItems, dbLots, dbSales, nextUid>>

connVars == <<dbPromise, opens, calls>>

pageVars == <<dbSettings, settingsCalls>>

appVars == <<alerts, dbAlerts, dbQueue, refreshes, webhooks, effectDue, loading,
             dbView, storeVars, connVars, pageVars>>

planVars == <<item, lots, sales, settings, currentDate, view, item2, view2, planPc>>

detVars == <<planningViews, existingAlerts, now, calledAt, newAlerts, newAlerts2, detPc>>

vars == <<planVars, detVars, appVars>>

\* sequences over S of length at most n
SeqsUpTo(S, n) == UNION {[1..k -> S] : k \in 0..n}

\* ------------------------------------- inputs of the planning calculator
PackSizes == {0, 1, 4}
Moqs == {0, 3}
LeadTimes == {0, 2}
ShelfLives == {NULL, 0, 1, 3}

PlanItems ==
  [id : {"p1"}, packSize : PackSizes, leadTimeDays : LeadTimes, moq : Moqs,
   shelfLifeDays : ShelfLives]

PlanDate == [year |-> 2026, month |-> 1, time |-> 100 * DayTicks]

PlanLotValues ==
  {[itemId |-> "p1", expiryDate |-> NULL, quantityRemaining |-> q, status |-> "available"]
     : q \in {1, 4995}}

PlanSaleValues ==
  {[itemId |-> "p1", month |-> <<2026, 2>>, quantitySold |-> 152],
   [itemId |-> "p1", month |-> <<2025, 12>>, quantitySold |-> 30]}

\* DEFAULT_SETTINGS, with the fields the calculator reads varied
DEFAULT_SETTINGS ==
  [defaultLeadTimeDays |-> 14, safetyStockDays |-> 7, reviewPeriodDays |-> 7,
   lowStockDaysCoverThreshold |-> 21, expiryWarningDays |-> 60,
   notificationCooldownHours |-> 24, whatsappMode |-> "clickToWhatsApp",
   webhookUrl |-> "", forecastMethod |-> "simpleAverage6Months",
   weights |-> <<1, 1, 1, 1, 1, 5>>, lowStockRule |-> "belowDaysCover"]

PlanSettings ==
  {[DEFAULT_SETTINGS EXCEPT !.defaultLeadTimeDays = 1, !.safetyStockDays = 1,
                            !.reviewPeriodDays = r, !.forecastMethod = f,
                            !.lowStockRule = u]
     : r \in {0, 1}, f \in {"simpleAverage6Months", "weightedAverage"},
       u \in {"belowDaysCover", "belowReorderPoint"}}

NoView == [item |-> "none"]

\* the planning calculator is not in use
PlanIdle ==
  /\ item = [id |-> "p1", packSize |-> 1, leadTimeDays |-> 0, moq |-> 0,
             shelfLifeDays |-> NULL]
  /\ lots = <<>>
  /\ sales = <<>>
  /\ currentDate = PlanDate
  /\ view = NoView
  /\ item2 = item
  /\ view2 = NoView
  /\ planPc = "idle"

\* the alert detector is not in use
DetIdle ==
  /\ planningViews = <<>>
  /\ existingAlerts = <<>>
  /\ now = 0
  /\ calledAt = 0
  /\ newAlerts = <<>>
  /\ newAlerts2 = <<>>
  /\ detPc = "idle"

\* the stores are empty and nothing is imported
StoreIdle ==
  /\ items = <<>>
  /\ dbItems = {}
  /\ dbLots = {}
  /\ dbSales = {}
  /\ nextUid = 1

\* no AgriDB call has been made
ConnIdle ==
  /\ dbPromise = NULL
  /\ opens = <<>>
  /\ calls = [c \in 1..MaxCalls |-> [stage |-> "idle", conn |-> NULL]]

\* no settings are stored and no edit is in flight
PageIdle ==
  /\ dbSettings = {}
  /\ settingsCalls = <<>>

\* no alert exists and nothing of the alert handling is in flight
ShellIdle ==
  /\ alerts = <<>>
  /\ dbAlerts = {}
  /\ dbQueue = <<>>
  /\ refreshes = <<>>
  /\ webhooks = {}
  /\ effectDue = FALSE
  /\ loading = TRUE
  /\ dbView = [item |-> [id |-> "p1"], lowStockFlag |-> FALSE, expiringSoonLots |-> <<>>]

\* the application is not running
AppIdle == StoreIdle /\ ConnIdle /\ ShellIdle /\ PageIdle

PlanInit ==
  /\ item \in PlanItems
  /\ lots \in SeqsUpTo(PlanLotValues, MaxLots)
  /\ sales \in SeqsUpTo(PlanSaleValues, MaxSales)
  /\ settings \in PlanSettings
  /\ currentDate = PlanDate
  /\ view = NoView
  /\ item2 = item
  /\ view2 = NoView
  /\ planPc = "input"
  /\ DetIdle
  /\ AppIdle

\* planningViews: items.map(item => calculateItemPlanning(item, lots, sales, settings))
Plan ==
  /\ planPc = "input"
  /\ view' = calculateItemPlanning(item, lots, sales, settings, currentDate)
  /\ planPc' = "planned"
  /\ UNCHANGED <<item, lots, sales, settings, currentDate, item2, view2>>
  /\ UNCHANGED <<detVars, appVars>>

\* the same product with a larger shelfLifeDays, planned on the same data
PlanLongerShelfLife(s) ==
  /\ planPc = "planned"
  /\ item.shelfLifeDays # NULL
  /\ s > item.shelfLifeDays
  /\ item2' = [item EXCEPT !.shelfLifeDays = s]
  /\ view2' = calculateItemPlanning(item2', lots, sales, settings, currentDate)
  /\ planPc' = "compared"
  /\ UNCHANGED <<item, lots, sales, settings, currentDate, view>>
  /\ UNCHANGED <<detVars, appVars>>

PlanNext ==
  \/ Plan
  \/ \E s \in ShelfLives \ {NULL} : PlanLongerShelfLife(s)

SpecPlan == PlanInit /\ [][PlanNext]_vars

\* ------------------------------------------- claims on the planning calculator
\* the views computed so far
PlannedViews ==
  IF planPc = "planned" THEN {view} ELSE IF planPc = "compared" THEN {view, view2} ELSE {}

\* C1: a positive suggestedOrderQty is at least the product's moq and, when
\* packSize > 0, an exact multiple of packSize.
C1_PositiveOrderMeetsMoqAndPack ==
  \A v \in PlannedViews :
    RLt(R(0), v.suggestedOrderQty) =>
      /\ RLe(R(v.item.moq), v.suggestedOrderQty)
      /\ v.item.packSize > 0 => RIsMultiple(v.suggestedOrderQty, v.item.packSize)

\* C1 witness: the freshness cap cut the quantity below moq, and the order
\* was then raised to moq and rounded to the pack size.
C1_Witness ==
  /\ planPc = "planned"
  /\ view.freshnessCapApplied
  /\ RLt(R(0), view.freshnessCapQty)
  /\ RLt(view.freshnessCapQty, R(item.moq))
  /\ item.packSize > 1
  /\ RLt(R(0), view.suggestedOrderQty)

\* C2: suggestedOrderQty is never negative.
C2_OrderNonNegative ==
  \A v \in PlannedViews : RLe(R(0), v.suggestedOrderQty)

\* C2 witness: stock above the reorder point, no demand, shelf life 0, moq 0.
C2_Witness ==
  /\ planPc = "planned"
  /\ RLt(view.reorderPoint, view.availableStock)
  /\ view.dailyDemand = R(0)
  /\ item.shelfLifeDays = 0
  /\ item.moq = 0
  /\ view.suggestedOrderQty = R(0)

\* C9: daysCover is 999 exactly when dailyDemand is 0.
C9_Cover999IffNoDemand ==
  \A v \in PlannedViews : (v.daysCover = R(999)) <=> (v.dailyDemand = R(0))

\* C10: with everything else equal, the product with the larger shelfLifeDays
\* never gets the smaller suggestedOrderQty (MOQ raising and pack rounding are
\* monotone, so the rounding exception of the claim never has to be invoked).
C10_ShelfLifeMonotone ==
  planPc = "compared" => RLe(view.suggestedOrderQty, view2.suggestedOrderQty)

\* C10 witness: the boundary case of the claim. The cap binds for both shelf
\* lives, and MOQ/pack rounding lifts the order of the shorter shelf life
\* above the capped quantity of the longer one.
C10_Witness ==
  /\ planPc = "compared"
  /\ view.freshnessCapApplied
  /\ view2.freshnessCapApplied
  /\ RLt(R(0), view.freshnessCapQty)
  /\ RLt(view.freshnessCapQty, view2.freshnessCapQty)
  /\ RLt(view2.freshnessCapQty, view.suggestedOrderQty)

\* C28: whenever capQty is 0, that is availableStock >= dailyDemand x shelfLife
\* x 0.8 (in particular whenever dailyDemand is 0), suggestedOrderQty is 0 for
\* every moq and packSize.
C28_ZeroCapZeroOrder ==
  \A v \in PlannedViews :
    LET shelfLife == IF v.item.shelfLifeDays = NULL THEN 365 ELSE v.item.shelfLifeDays
        capIsZero == 5 * v.availableStock.n * v.dailyDemand.d
                       >= 4 * shelfLife * v.dailyDemand.n * v.availableStock.d
    IN  /\ capIsZero <=> v.freshnessCapQty = R(0)
        /\ v.dailyDemand = R(0) => capIsZero
        /\ capIsZero => v.suggestedOrderQty = R(0)

\* C28 witness: a product with moq 3 and packSize 4 whose stock covers 80% of
\* its shelf life of one day; demand is positive and the quantity before the
\* cap is positive, and nothing is ordered.
C28_Witness ==
  /\ planPc = "planned"
  /\ item.moq = 3
  /\ item.packSize = 4
  /\ item.shelfLifeDays = 1
  /\ RLt(R(0), view.dailyDemand)
  /\ RLt(R(0), rawSuggestedOf(view.reorderPoint, view.dailyDemand, settings,
                              view.availableStock))
  /\ view.freshnessCapQty = R(0)
  /\ view.suggestedOrderQty = R(0)

\* ----------------- planning cases: lot filtering, missing sales, MOQ raising
\* a product without per-product lead time, MOQ or shelf life, ordered by the unit
StockItem ==
  [id |-> "p1", packSize |-> 1, leadTimeDays |-> 0, moq |-> 0, shelfLifeDays |-> NULL]

StockLot(p, status, expiry, q) ==
  [itemId |-> p, expiryDate |-> expiry, quantityRemaining |-> q, status |-> status]

\* lots around the two ends of the warning window of one day: expired, expiring
\* exactly now, one tick later, exactly expiryWarningDays later, one tick after
\* that; a lot of another product, a damaged lot and a lot marked expired. The
\* quantities are powers of two, so that availableStock tells which lots were
\* summed.
StockLotValues ==
  {StockLot("p1", "available", NULL, 1),
   StockLot("p1", "available", PlanDate.time - 1, 2),
   StockLot("p1", "available", PlanDate.time, 4),
   StockLot("p1", "available", PlanDate.time + 1, 8),
   StockLot("p1", "available", PlanDate.time + DayTicks, 16),
   StockLot("p1", "available", PlanDate.time + DayTicks + 1, 32),
   StockLot("p2", "available", PlanDate.time + 1, 64),
   StockLot("p1", "damaged", PlanDate.time + 1, 128),
   StockLot("p1", "expired", PlanDate.time + 1, 256)}

StockSaleValues ==
  {[itemId |-> "p2", month |-> <<2026, 1>>, quantitySold |-> 50],
   [itemId |-> "p1", month |-> <<2026, 1>>, quantitySold |-> 30]}

StockSettings ==
  {[DEFAULT_SETTINGS EXCEPT !.expiryWarningDays = 1, !.forecastMethod = f,
                            !.lowStockRule = u, !.lowStockDaysCoverThreshold = t]
     : f \in {"simpleAverage6Months", "weightedAverage"},
       u \in {"belowDaysCover", "belowReorderPoint"},
       t \in {21, 1000}}

\* the products, stock and sales around the example dailyDemand 2 (60.8 a
\* month: 304 sold in one of five months of weight 1), reorderPoint 20 (lead
\* time 3 and safety stock 7 days), reviewPeriodDays 7, moq 25
\* (a product with leadTimeDays 0 takes defaultLeadTimeDays 14: reorderPoint 42)
MoqItems ==
  {[StockItem EXCEPT !.leadTimeDays = t, !.moq = m] : t \in {0, 3}, m \in {0, 25}}

MoqLotValues == {StockLot("p1", "available", NULL, q) : q \in {10, 34}}

MoqSaleValues ==
  {[itemId |-> "p1", month |-> <<2025, 12>>, quantitySold |-> 304],
   [itemId |-> "p1", month |-> <<2026, 1>>, quantitySold |-> 30]}

\* both low stock rules; the stock 20 is 10 days of cover
MoqSettings ==
  {[DEFAULT_SETTINGS EXCEPT !.forecastMethod = "weightedAverage",
                            !.weights = <<1, 1, 1, 1, 1, 0>>,
                            !.lowStockRule = u, !.lowStockDaysCoverThreshold = t]
     : u \in {"belowDaysCover", "belowReorderPoint"}, t \in {10, 21}}

\* forecasting: the plan is made in February or in January 2026, so the six
\* months start in September or in August 2025
JanuaryDate == [year |-> 2026, month |-> 0, time |-> 70 * DayTicks]

ForecastDates == {PlanDate, JanuaryDate}

ForecastSale(p, year, month, q) ==
  [itemId |-> p, month |-> <<year, month>>, quantitySold |-> q]

\* records of July 2025 to March 2026, a second record of February 2026 and a
\* record of another product
ForecastSaleValues ==
  {ForecastSale("p1", 2025, 7, 700),
   ForecastSale("p1", 2025, 8, 608),
   ForecastSale("p1", 2025, 9, 304),
   ForecastSale("p1", 2025, 12, 152),
   ForecastSale("p1", 2026, 1, 456),
   ForecastSale("p1", 2026, 2, 912),
   ForecastSale("p1", 2026, 2, 30),
   ForecastSale("p1", 2026, 3, 76),
   ForecastSale("p2", 2026, 1, 1000)}

ForecastWeights == {<<1, 1, 1, 1, 1, 5>>, <<3, 0, 0, 0, 0, 1>>, <<0, 0, 0, 0, 0, 0>>}

ForecastSettings ==
  {[DEFAULT_SETTINGS EXCEPT !.forecastMethod = f, !.weights = w]
     : f \in {"simpleAverage6Months", "weightedAverage"}, w \in ForecastWeights}

StockInit ==
  /\ \/ /\ item = StockItem
        /\ lots \in SeqsUpTo(StockLotValues, MaxLots)
        /\ sales \in SeqsUpTo(StockSaleValues, MaxSales)
        /\ settings \in StockSettings
        /\ currentDate = PlanDate
     \/ /\ item \in MoqItems
        /\ lots \in SeqsUpTo(MoqLotValues, MaxLots)
        /\ sales \in SeqsUpTo(MoqSaleValues, MaxSales)
        /\ settings \in MoqSettings
        /\ currentDate = PlanDate
     \/ /\ item = StockItem
        /\ lots = <<>>
        /\ sales \in SeqsUpTo(ForecastSaleValues, MaxSales)
        /\ settings \in ForecastSettings
        /\ currentDate \in ForecastDates
  /\ view = NoView
  /\ item2 = item
  /\ view2 = NoView
  /\ planPc = "input"
  /\ DetIdle
  /\ AppIdle

SpecStock == StockInit /\ [][Plan]_vars

\* C11: for a product with no sales records, avgMonthlyDemand and dailyDemand
\* are 0 and daysCover is 999 under both forecast methods, and under the rule
\* belowDaysCover lowStockFlag is false whatever lowStockDaysCoverThreshold is.
C11_NoSalesNeverLowStock ==
  (planPc = "planned" /\ \A k \in 1..Len(sales) : sales[k].itemId # item.id) =>
    /\ view.avgMonthlyDemand = R(0)
    /\ view.dailyDemand = R(0)
    /\ view.daysCover = R(999)
    /\ settings.lowStockRule = "belowDaysCover" => ~view.lowStockFlag

\* the lot belongs to the product of the plan and is available
IsLotOfPlan(l) == l.itemId = item.id /\ l.status = "available"

\* the lot has an expiry date, with 0 < expiry - now <= expiryWarningDays days
ExpiresWithinWarning(l) ==
  /\ l.expiryDate # NULL
  /\ 0 < l.expiryDate - currentDate.time
  /\ l.expiryDate - currentDate.time <= settings.expiryWarningDays * DayTicks

\* the lot has no expiry date or expires strictly after now
CountsAsStock(l) == l.expiryDate = NULL \/ l.expiryDate > currentDate.time

\* C12: expiringSoonLots holds exactly the available lots of the product with
\* 0 < (expiry - now in days) <= expiryWarningDays; a lot that expires at or
\* before now is in neither expiringSoonLots nor availableStock; availableStock
\* is the sum of quantityRemaining over the available lots of the product with
\* no expiry date or an expiry strictly after now.
C12_LotFiltering ==
  planPc = "planned" =>
    /\ view.expiringSoonLots
         = SelectSeq(lots, LAMBDA l : IsLotOfPlan(l) /\ ExpiresWithinWarning(l))
    /\ view.availableStock
         = R(SumQuantityRemaining(
               SelectSeq(lots, LAMBDA l : IsLotOfPlan(l) /\ CountsAsStock(l))))
    /\ \A k \in 1..Len(view.expiringSoonLots) :
         view.expiringSoonLots[k].expiryDate > currentDate.time

\* C12 witness: a lot that expires exactly now and a lot that expires exactly
\* expiryWarningDays from now; only the second is expiring soon and is stock.
C12_Witness ==
  /\ planPc = "planned"
  /\ \E k \in 1..Len(lots) :
       IsLotOfPlan(lots[k]) /\ lots[k].expiryDate = currentDate.time
  /\ \E k \in 1..Len(lots) :
       /\ IsLotOfPlan(lots[k])
       /\ lots[k].expiryDate = currentDate.time + settings.expiryWarningDays * DayTicks
  /\ Len(view.expiringSoonLots) = 1
  /\ view.availableStock = R(16)

\* the positions in lots of what counts as stock of the product: its available
\* lots that have not expired
StockOfPlan ==
  {k \in 1..Len(lots) : /\ lots[k].itemId = item.id
                        /\ lots[k].status = "available"
                        /\ (lots[k].expiryDate = NULL \/ lots[k].expiryDate > currentDate.time)}

RECURSIVE RemainingOver(_)
RemainingOver(S) ==
  IF S = {} THEN 0
  ELSE LET k == CHOOSE j \in S : TRUE
       IN  lots[k].quantityRemaining + RemainingOver(S \ {k})

\* C29: every lot in expiringSoonLots is counted in availableStock and is
\* contained in the returned lots; expiringSoonLots is a subset of the
\* available, not yet expired lots of the product; no lot of another product
\* or with status expired or damaged is in lots, in expiringSoonLots or in
\* availableStock.
C29_ExpiringLotsAreStock ==
  planPc = "planned" =>
    /\ \A i \in 1..Len(view.expiringSoonLots) :
         /\ \E k \in StockOfPlan : lots[k] = view.expiringSoonLots[i]
         /\ \E j \in 1..Len(view.lots) : view.lots[j] = view.expiringSoonLots[i]
    /\ \A j \in 1..Len(view.lots) :
         /\ view.lots[j].itemId = item.id
         /\ view.lots[j].status = "available"
         /\ \E k \in 1..Len(lots) : lots[k] = view.lots[j]
    /\ view.availableStock = R(RemainingOver(StockOfPlan))

\* C29 witness: a lot of the product that expires within the warning period
\* next to a damaged lot with the same expiry date; only the first is returned,
\* expiring soon and counted.
C29_Witness ==
  /\ planPc = "planned"
  /\ Len(lots) = 2
  /\ \E k \in 1..Len(lots) :
       /\ lots[k].status = "damaged"
       /\ lots[k].itemId = item.id
       /\ ExpiresWithinWarning(lots[k])
  /\ Len(view.lots) = 1
  /\ view.expiringSoonLots = view.lots
  /\ view.availableStock = R(view.lots[1].quantityRemaining)

\* the quantity before the freshness cap, from the fields of the view
RawOf(v) ==
  RMax(R(0), RSub(RAdd(v.reorderPoint, RMul(v.dailyDemand, R(settings.reviewPeriodDays))),
                  v.availableStock))

\* C20 as stated: when no freshness cap binds and packSize = 1, suggestedOrderQty
\* is max(0, reorderPoint + dailyDemand x reviewPeriodDays - availableStock),
\* raised to moq when positive and below moq; 0 stays 0.
C20_RawRaisedToMoq ==
  (planPc = "planned" /\ ~view.freshnessCapApplied /\ item.packSize = 1) =>
    view.suggestedOrderQty
      = IF RLt(R(0), RawOf(view)) /\ RLt(RawOf(view), R(item.moq))
        THEN R(item.moq) ELSE RawOf(view)

\* C20 amended: that quantity, rounded up to the next whole number (the pack
\* rounding for packSize = 1).
C20_RawRaisedToMoqRoundedUp ==
  (planPc = "planned" /\ ~view.freshnessCapApplied /\ item.packSize = 1) =>
    view.suggestedOrderQty
      = RCeil(IF RLt(R(0), RawOf(view)) /\ RLt(RawOf(view), R(item.moq))
              THEN R(item.moq) ELSE RawOf(view))

\* C20 witness: the example of the claim, raw 24 raised to the moq 25.
C20_Witness ==
  /\ planPc = "planned"
  /\ ~view.freshnessCapApplied
  /\ item.packSize = 1
  /\ item.moq = 25
  /\ view.dailyDemand = R(2)
  /\ view.availableStock = R(10)
  /\ view.reorderPoint = R(20)
  /\ settings.reviewPeriodDays = 7
  /\ RawOf(view) = R(24)
  /\ view.suggestedOrderQty = R(25)

\* capQty of the claim: max(0, dailyDemand x shelfLife x 0.8 - availableStock)
\* with shelfLife = shelfLifeDays, 365 if unset
CapOf(v) ==
  LET shelfLife == IF v.item.shelfLifeDays = NULL THEN 365 ELSE v.item.shelfLifeDays
  IN  RMax(R(0), RSub(RDiv(RMul(RMul(v.dailyDemand, R(shelfLife)), R(4)), R(5)),
                      v.availableStock))

\* MOQ raising and pack rounding of the quantity q for the product of the view
RoundedOf(v, q) ==
  LET raised == IF RLt(R(0), q) /\ RLt(q, R(v.item.moq)) THEN R(v.item.moq) ELSE q
  IN  IF RLt(R(0), raised) /\ v.item.packSize > 0
      THEN RMul(RCeil(RDiv(raised, R(v.item.packSize))), R(v.item.packSize))
      ELSE raised

\* C19: freshnessCapQty is capQty, the quantity that goes into MOQ/pack rounding
\* is min(raw, capQty), and freshnessCapApplied is true exactly when that
\* quantity is strictly less than raw.
C19_FreshnessCap ==
  \A v \in PlannedViews :
    LET clamped == IF RLt(CapOf(v), RawOf(v)) THEN CapOf(v) ELSE RawOf(v)
    IN  /\ v.freshnessCapQty = CapOf(v)
        /\ v.freshnessCapApplied <=> RLt(clamped, RawOf(v))
        /\ v.suggestedOrderQty = RoundedOf(v, clamped)

\* C19 witness: a positive capQty below the raw quantity, so the cap was applied
\* and the order is the rounded capQty.
C19_Witness ==
  /\ planPc = "planned"
  /\ RLt(R(0), view.freshnessCapQty)
  /\ RLt(view.freshnessCapQty, RawOf(view))
  /\ view.freshnessCapApplied
  /\ view.suggestedOrderQty = RoundedOf(view, view.freshnessCapQty)
  /\ view.suggestedOrderQty # view.freshnessCapQty

\* the positions in sales of the records of the product of the plan
SalesOfPlan == {k \in 1..Len(sales) : sales[k].itemId = item.id}

\* the k-th of the six calendar months that end with the month of now; January
\* is month 0 of a date and month 1 of a sales record
WindowMonth(k) ==
  LET m == currentDate.month - (6 - k)
  IN  IF m >= 0 THEN <<currentDate.year, m + 1>> ELSE <<currentDate.year - 1, m + 13>>

\* quantitySold of the product in the month, 0 if the month has no record (of
\* two records of one month the first in the list counts)
SoldIn(month) ==
  LET found == {k \in SalesOfPlan : sales[k].month = month}
  IN  IF found = {} THEN 0
      ELSE sales[CHOOSE k \in found : \A j \in found : k <= j].quantitySold

\* the sum of quantitySold over the records at the positions S
RECURSIVE SoldOver(_)
SoldOver(S) ==
  IF S = {} THEN 0
  ELSE LET k == CHOOSE j \in S : TRUE
       IN  sales[k].quantitySold + SoldOver(S \ {k})

\* C21: under weightedAverage, avgMonthlyDemand is the sum over the six months
\* of the window, oldest first, of the month's quantitySold (0 if absent) times
\* the weight at the same position, divided by the sum of the six weights, and
\* 0 when the weights sum to 0; the last weight belongs to the current month,
\* the window runs into the previous year, and records of months outside the
\* window do not count.
C21_WeightedAverage ==
  (planPc = "planned" /\ settings.forecastMethod = "weightedAverage") =>
    LET w == settings.weights
        total == w[1] + w[2] + w[3] + w[4] + w[5] + w[6]
        weighted == SoldIn(WindowMonth(1)) * w[1] + SoldIn(WindowMonth(2)) * w[2]
                    + SoldIn(WindowMonth(3)) * w[3] + SoldIn(WindowMonth(4)) * w[4]
                    + SoldIn(WindowMonth(5)) * w[5] + SoldIn(WindowMonth(6)) * w[6]
    IN  /\ WindowMonth(6) = <<currentDate.year, currentDate.month + 1>>
        /\ total = 0 => view.avgMonthlyDemand = R(0)
        /\ total # 0 => view.avgMonthlyDemand.n * total = weighted * view.avgMonthlyDemand.d

\* C21 witness: planned in February 2026 with the weights 3,0,0,0,0,1; a
\* record of September 2025, the oldest month of the window, and a record of
\* August 2025, outside of it: the average is 304 x 3 / 4.
C21_Witness ==
  /\ planPc = "planned"
  /\ settings.forecastMethod = "weightedAverage"
  /\ settings.weights = <<3, 0, 0, 0, 0, 1>>
  /\ currentDate = PlanDate
  /\ \E k \in SalesOfPlan : sales[k].month = <<2025, 9>>
  /\ \E k \in SalesOfPlan : sales[k].month = <<2025, 8>> /\ sales[k].quantitySold > 0
  /\ view.avgMonthlyDemand = R(228)

C23_ReorderPoint ==
  planPc = "planned" =>
    LET leadTime == IF item.leadTimeDays = 0 THEN settings.defaultLeadTimeDays
                    ELSE item.leadTimeDays
    IN  view.reorderPoint
          = RAdd(RMul(view.dailyDemand, R(leadTime)),
                 RMul(view.dailyDemand, R(settings.safetyStockDays)))

\* C23 witness: leadTimeDays 0 and dailyDemand 2: the default of 14 days and
\* the 7 days of safety stock give the reorder point 42.
C23_Witness ==
  /\ planPc = "planned"
  /\ item.leadTimeDays = 0
  /\ settings.defaultLeadTimeDays = 14
  /\ settings.safetyStockDays = 7
  /\ view.dailyDemand = R(2)
  /\ view.reorderPoint = R(42)

\* C24: lowStockFlag is daysCover < lowStockDaysCoverThreshold under the rule
\* belowDaysCover and availableStock < reorderPoint otherwise, both strict:
\* stock exactly at the threshold or at the reorder point is not flagged.
C24_LowStockFlag ==
  planPc = "planned" =>
    /\ view.lowStockFlag
         <=> IF settings.lowStockRule = "belowDaysCover"
             THEN view.daysCover.n < settings.lowStockDaysCoverThreshold * view.daysCover.d
             ELSE view.availableStock.n * view.reorderPoint.d
                    < view.reorderPoint.n * view.availableStock.d
    /\ (settings.lowStockRule = "belowDaysCover"
          /\ view.daysCover = R(settings.lowStockDaysCoverThreshold)) => ~view.lowStockFlag
    /\ (settings.lowStockRule # "belowDaysCover"
          /\ view.availableStock = view.reorderPoint) => ~view.lowStockFlag

\* C24 witness: the stock 20 with dailyDemand 2 is exactly the reorder point of
\* 20 under the rule belowReorderPoint, and it is not flagged.
C24_Witness ==
  /\ planPc = "planned"
  /\ settings.lowStockRule = "belowReorderPoint"
  /\ view.dailyDemand = R(2)
  /\ view.availableStock = R(20)
  /\ view.reorderPoint = R(20)
  /\ ~view.lowStockFlag

\* ------------------------------------------------ inputs of the alert detector
Products == {"p1", "p2"}
AlertTypes == {"lowStock", "expiry"}

\* the fields of a planning view that detectAlerts reads (one view per product,
\* as items.map builds them); expiringSoonLots holds lot numbers
DetView(p, flag, expiring) ==
  [item |-> [id |-> p], lowStockFlag |-> flag, expiringSoonLots |-> expiring]

DetViewsOfP1 == {DetView("p1", f, e) : f \in BOOLEAN, e \in {<<>>, <<"L1", "L2">>}}

DetViewSeqs ==
  {<<v>> : v \in DetViewsOfP1}
  \cup {<<v, DetView("p2", TRUE, <<"L3">>)>> : v \in DetViewsOfP1}

\* a stored alert: pending and dismissed alerts carry no lastSentAt, a sent
\* alert carries the time of handleAction
StoredAlert(p, type, status, sentAt) ==
  [id |-> <<type, p, 0>>, createdAt |-> 0, itemId |-> p, type |-> type,
   message |-> <<>>, status |-> status, lastSentAt |-> sentAt]

DetAlertValues ==
  {StoredAlert("p1", t, st, NULL) : t \in AlertTypes, st \in {"pending", "dismissed"}}
  \cup {StoredAlert("p1", t, "sent", at) : t \in AlertTypes, at \in {0, 1}}
  \cup {StoredAlert("p2", "lowStock", "pending", NULL),
        StoredAlert("p2", "expiry", "sent", 0)}

DetSettings ==
  {[DEFAULT_SETTINGS EXCEPT !.notificationCooldownHours = h] : h \in {1, 2}}

DetInit ==
  /\ planningViews \in DetViewSeqs
  /\ existingAlerts \in SeqsUpTo(DetAlertValues, MaxAlerts)
  /\ settings \in DetSettings
  /\ now \in 0..MaxTime
  /\ calledAt = now
  /\ newAlerts = <<>>
  /\ newAlerts2 = <<>>
  /\ detPc = "input"
  /\ PlanIdle
  /\ AppIdle

\* faulty variant: the call dismisses the sent alerts whose cooldown has ended
Detect_dismissesExpired ==
  /\ detPc = "input"
  /\ newAlerts' = detectAlerts(planningViews, existingAlerts, settings, now)
  /\ existingAlerts' =
       [k \in 1..Len(existingAlerts) |->
          IF /\ existingAlerts[k].lastSentAt # NULL
             /\ now - existingAlerts[k].lastSentAt
                  >= settings.notificationCooldownHours * HourTicks
          THEN [existingAlerts[k] EXCEPT !.status = "dismissed"]
          ELSE existingAlerts[k]]
  /\ calledAt' = now
  /\ detPc' = "detected"
  /\ UNCHANGED <<planningViews, settings, now, newAlerts2>>
  /\ UNCHANGED <<item, lots, sales, currentDate, view, item2, view2, planPc>>
  /\ UNCHANGED appVars

\* the first call: detectAlerts(planningViews, existingAlerts, settings)
Detect ==
  /\ detPc = "input"
  /\ newAlerts' = detectAlerts(planningViews, existingAlerts, settings, now)
  /\ calledAt' = now
  /\ detPc' = "detected"
  /\ UNCHANGED <<planningViews, existingAlerts, settings, now, newAlerts2>>
  /\ UNCHANGED <<item, lots, sales, currentDate, view, item2, view2, planPc>>
  /\ UNCHANGED appVars

\* time passes between the two calls
DetTick ==
  /\ detPc = "detected"
  /\ now < MaxTime
  /\ now' = now + 1
  /\ UNCHANGED <<planningViews, existingAlerts, settings, calledAt, newAlerts,
                 newAlerts2, detPc>>
  /\ UNCHANGED <<item, lots, sales, currentDate, view, item2, view2, planPc>>
  /\ UNCHANGED appVars

\* the second call, on the same views, with existingAlerts extended by every
\* alert the first call returned
DetectAgain ==
  /\ detPc = "detected"
  /\ newAlerts2' = detectAlerts(planningViews, existingAlerts \o newAlerts, settings, now)
  /\ detPc' = "detectedAgain"
  /\ UNCHANGED <<planningViews, existingAlerts, settings, now, calledAt, newAlerts>>
  /\ UNCHANGED <<item, lots, sales, currentDate, view, item2, view2, planPc>>
  /\ UNCHANGED appVars

\* another call on the same snapshot: the caller has not yet added the alerts
\* of the first call to existingAlerts
DetectRepeat ==
  /\ detPc = "detected"
  /\ newAlerts2' = detectAlerts(planningViews, existingAlerts, settings, now)
  /\ detPc' = "detectedSame"
  /\ UNCHANGED <<planningViews, existingAlerts, settings, now, calledAt, newAlerts>>
  /\ UNCHANGED <<item, lots, sales, currentDate, view, item2, view2, planPc>>
  /\ UNCHANGED appVars

DetNext == Detect \/ DetTick \/ DetectAgain \/ DetectRepeat

SpecDetect == DetInit /\ [][DetNext]_vars

\* ------------------------------------------------ claims on the alert detector
\* the first call has returned: newAlerts was computed at the clock value calledAt
FirstCallDone == detPc \in {"detected", "detectedAgain"}

Emitted(list, p, type) ==
  \E i \in 1..Len(list) : list[i].itemId = p /\ list[i].type = type

\* the condition of an alert of the type holds for the view
Qualifies(v, type) ==
  IF type = "lowStock" THEN v.lowStockFlag ELSE Len(v.expiringSoonLots) > 0

\* less than notificationCooldownHours hours lie between the time t and the time at
Within(t, at) == at - t < settings.notificationCooldownHours * HourTicks

ExistingOf(p, type) ==
  {i \in 1..Len(existingAlerts) :
     existingAlerts[i].itemId = p /\ existingAlerts[i].type = type}

\* C3 as stated: a second call on the same views, with existingAlerts extended
\* by the alerts of the first call, returns the empty list.
C3_SecondCallEmpty == detPc = "detectedAgain" => newAlerts2 = <<>>

\* no cooldown of an existing alert ends between the two calls
NoCooldownEndedBetweenCalls ==
  \A i \in 1..Len(existingAlerts) :
    existingAlerts[i].lastSentAt # NULL =>
      (Within(existingAlerts[i].lastSentAt, calledAt)
         <=> Within(existingAlerts[i].lastSentAt, now))

\* C3 amended: the second call returns the empty list when no cooldown of an
\* existing alert ends between the two calls (as when both read the same clock
\* value).
C3_SecondCallEmptyWithinCooldown ==
  (detPc = "detectedAgain" /\ NoCooldownEndedBetweenCalls) => newAlerts2 = <<>>

\* C3 witness: the first call emitted alerts next to a sent alert in cooldown,
\* and the second call has run later, before that cooldown ended.
C3_Witness ==
  /\ detPc = "detectedAgain"
  /\ Len(newAlerts) = 2
  /\ now > calledAt
  /\ NoCooldownEndedBetweenCalls
  /\ \E i \in 1..Len(existingAlerts) :
       /\ existingAlerts[i].status = "sent"
       /\ existingAlerts[i].itemId = "p1"
       /\ Within(existingAlerts[i].lastSentAt, now)
       /\ Qualifies(planningViews[1], existingAlerts[i].type)

\* C4: a sent alert whose lastSentAt is less than notificationCooldownHours
\* hours old suppresses a new alert of its product and type; when the condition
\* holds and no alert of the product and type is pending or has its lastSentAt
\* (createdAt if it has none) within the cooldown, a new alert is emitted.
C4_CooldownRespected ==
  FirstCallDone =>
    \A k \in 1..Len(planningViews), type \in AlertTypes :
      LET v == planningViews[k]
          same == ExistingOf(v.item.id, type)
      IN  /\ (\E i \in same :
                /\ existingAlerts[i].status = "sent"
                /\ existingAlerts[i].lastSentAt # NULL
                /\ Within(existingAlerts[i].lastSentAt, calledAt))
             => ~Emitted(newAlerts, v.item.id, type)
          /\ (/\ Qualifies(v, type)
              /\ \A i \in same :
                   /\ existingAlerts[i].status # "pending"
                   /\ ~Within(IF existingAlerts[i].lastSentAt # NULL
                              THEN existingAlerts[i].lastSentAt
                              ELSE existingAlerts[i].createdAt, calledAt))
             => Emitted(newAlerts, v.item.id, type)

\* C4 witness: a sent lowStock alert of p1 whose cooldown ended exactly at the
\* call, and the new lowStock alert of p1.
C4_Witness ==
  /\ FirstCallDone
  /\ Emitted(newAlerts, "p1", "lowStock")
  /\ \E i \in ExistingOf("p1", "lowStock") :
       /\ existingAlerts[i].status = "sent"
       /\ calledAt - existingAlerts[i].lastSentAt
            = settings.notificationCooldownHours * HourTicks

\* C5: an existing alert without lastSentAt whose createdAt is within the
\* cooldown suppresses a new alert of its product and type, whatever its status.
C5_CreatedAtSuppresses ==
  FirstCallDone =>
    \A k \in 1..Len(planningViews), type \in AlertTypes :
      (\E i \in ExistingOf(planningViews[k].item.id, type) :
         /\ existingAlerts[i].lastSentAt = NULL
         /\ Within(existingAlerts[i].createdAt, calledAt))
      => ~Emitted(newAlerts, planningViews[k].item.id, type)

\* C6: one call emits at most one alert of each type for each product.
C6_OnePerProductAndType ==
  \A list \in {newAlerts, newAlerts2} :
    \A i, j \in 1..Len(list) :
      (list[i].itemId = list[j].itemId /\ list[i].type = list[j].type) => i = j

\* C6 witness: two expiring lots and two existing alerts of the product, and
\* the one expiry alert emitted for it.
C6_Witness ==
  /\ FirstCallDone
  /\ Len(planningViews[1].expiringSoonLots) = 2
  /\ Cardinality(ExistingOf("p1", "expiry")) = 2
  /\ Emitted(newAlerts, "p1", "expiry")
  /\ Emitted(newAlerts, "p1", "lowStock")

\* C13: a call of detectAlerts leaves planningViews, settings and existingAlerts
\* (every alert in it, their number and order) as they were and writes nothing
\* to the alerts store or to the alert list of the application.
C13_DetectOnlyCreates ==
  [][detPc' # detPc =>
       /\ planningViews' = planningViews
       /\ settings' = settings
       /\ existingAlerts' = existingAlerts
       /\ dbAlerts' = dbAlerts
       /\ dbQueue' = dbQueue
       /\ alerts' = alerts]_vars

\* C13 witness: the call emitted an alert next to a sent alert of the same
\* product and type whose cooldown has ended, and that alert is still sent.
C13_Witness ==
  /\ detPc = "detected"
  /\ \E i \in 1..Len(existingAlerts), k \in 1..Len(newAlerts) :
       /\ existingAlerts[i].itemId = newAlerts[k].itemId
       /\ existingAlerts[i].type = newAlerts[k].type
       /\ existingAlerts[i].status = "sent"
       /\ ~Within(existingAlerts[i].lastSentAt, calledAt)
  /\ dbAlerts = {}

\* C14: no two emitted alerts share an id, in one call or in two calls.
C14_IdsUnique ==
  /\ \A list \in {newAlerts, newAlerts2} :
       \A i, j \in 1..Len(list) : list[i].id = list[j].id => i = j
  /\ \A i \in 1..Len(newAlerts), j \in 1..Len(newAlerts2) :
       newAlerts[i].id # newAlerts2[j].id

\* a call has returned newAlerts, computed at the clock value calledAt
CallDone == detPc \in {"detected", "detectedAgain", "detectedSame"}

\* an existing alert of the product and type is suppressing: it is pending, or
\* its lastSentAt, or else its createdAt, is less than notificationCooldownHours
\* hours before the call
Suppressed(p, type) ==
  \E i \in ExistingOf(p, type) :
    \/ existingAlerts[i].status = "pending"
    \/ Within(IF existingAlerts[i].lastSentAt # NULL THEN existingAlerts[i].lastSentAt
              ELSE existingAlerts[i].createdAt, calledAt)

\* every emitted alert is pending, created at the call, without lastSentAt
\* and of the product of a view
EmittedWellFormed ==
  \A i \in 1..Len(newAlerts) :
    /\ newAlerts[i].status = "pending"
    /\ newAlerts[i].createdAt = calledAt
    /\ newAlerts[i].lastSentAt = NULL
    /\ newAlerts[i].type \in AlertTypes
    /\ \E k \in 1..Len(planningViews) : planningViews[k].item.id = newAlerts[i].itemId

\* C25: detectAlerts emits exactly the qualifying alerts. For each view a
\* lowStock alert is emitted iff lowStockFlag is true and no suppressing lowStock
\* alert of the product exists, an expiry alert iff expiringSoonLots is not
\* empty and no suppressing expiry alert of the product exists; every emitted
\* alert is pending, created now, without lastSentAt and of the product of a view.
C25_EmitsExactlyQualifying ==
  CallDone =>
    /\ \A k \in 1..Len(planningViews), type \in AlertTypes :
         LET v == planningViews[k]
         IN  Emitted(newAlerts, v.item.id, type)
               <=> (Qualifies(v, type) /\ ~Suppressed(v.item.id, type))
    /\ EmittedWellFormed

\* what holds of the emitted alerts: they are well formed, an alert is emitted
\* only for a qualifying view, never next to a pending alert or a sent alert in
\* cooldown, and always when the view qualifies and no alert is suppressing
EmitsBetweenBounds ==
  CallDone =>
    /\ \A k \in 1..Len(planningViews), type \in AlertTypes :
         LET v == planningViews[k]
             same == ExistingOf(v.item.id, type)
         IN  /\ Emitted(newAlerts, v.item.id, type) => Qualifies(v, type)
             /\ Emitted(newAlerts, v.item.id, type) =>
                  \A i \in same :
                    /\ existingAlerts[i].status # "pending"
                    /\ existingAlerts[i].lastSentAt # NULL
                         => ~Within(existingAlerts[i].lastSentAt, calledAt)
             /\ (Qualifies(v, type) /\ ~Suppressed(v.item.id, type))
                  => Emitted(newAlerts, v.item.id, type)
    /\ EmittedWellFormed

\* ------------------------------- detectAlerts: suppression by product and type
\* the position of the detector after a second call that was given only the
\* existing alerts of the product and type
KeptPc(p, type) ==
  IF p = "p1"
  THEN IF type = "lowStock" THEN "keptP1LowStock" ELSE "keptP1Expiry"
  ELSE IF type = "lowStock" THEN "keptP2LowStock" ELSE "keptP2Expiry"

\* a second call on the same views at the same clock value, with the existing
\* alerts of every other product and of the other type taken away
DetectKeeping(p, type) ==
  /\ detPc = "detected"
  /\ newAlerts2' =
       detectAlerts(planningViews,
                    SelectSeq(existingAlerts, LAMBDA a : a.itemId = p /\ a.type = type),
                    settings, now)
  /\ detPc' = KeptPc(p, type)
  /\ UNCHANGED <<planningViews, existingAlerts, settings, now, calledAt, newAlerts>>
  /\ UNCHANGED <<item, lots, sales, currentDate, view, item2, view2, planPc>>
  /\ UNCHANGED appVars

SuppressNext ==
  \/ Detect
  \/ \E p \in Products, type \in AlertTypes : DetectKeeping(p, type)

SpecSuppress == DetInit /\ [][SuppressNext]_vars

\* the alerts of the product and type in the list, in order
EmittedOf(list, p, type) == SelectSeq(list, LAMBDA a : a.itemId = p /\ a.type = type)

\* C27: suppression in detectAlerts is per product and per type. Two runs whose
\* existingAlerts differ only in alerts of other products or of the other type
\* emit the same alerts of the product and type (each run emits what the run
\* without those other alerts emits); a view that qualifies gets its alert
\* whenever no existing alert has both its product and its type, so a pending
\* lowStock alert never suppresses an expiry alert of the product and an alert
\* of product A never suppresses an alert of product B.
C27_SuppressionPerProductAndType ==
  /\ \A p \in Products, type \in AlertTypes :
       detPc = KeptPc(p, type) => EmittedOf(newAlerts2, p, type) = EmittedOf(newAlerts, p, type)
  /\ detPc # "input" =>
       \A k \in 1..Len(planningViews), type \in AlertTypes :
         (Qualifies(planningViews[k], type) /\ ExistingOf(planningViews[k].item.id, type) = {})
           => Emitted(newAlerts, planningViews[k].item.id, type)

\* C27 witness: p1 has expiring lots, a pending lowStock alert of p1 and a
\* pending lowStock alert of p2 exist; the expiry alert of p1 is emitted with
\* these alerts and without them.
C27_Witness ==
  /\ detPc = KeptPc("p1", "expiry")
  /\ \E i \in ExistingOf("p1", "lowStock") : existingAlerts[i].status = "pending"
  /\ \E i \in ExistingOf("p2", "lowStock") : existingAlerts[i].status = "pending"
  /\ Len(EmittedOf(newAlerts, "p1", "expiry")) = 1
  /\ EmittedOf(newAlerts2, "p1", "expiry") = EmittedOf(newAlerts, "p1", "expiry")
  /\ ~Emitted(newAlerts, "p1", "lowStock")
  /\ Emitted(newAlerts2, "p1", "lowStock")

\* ------------------------------------------------------------ application
Slots == 1..MaxRefresh

IdleRefresh == [stage |-> "idle", result |-> <<>>]

PutRequest(a, thenRefresh) == [op |-> "put", alert |-> a, refresh |-> thenRefresh, slot |-> 0]

GetAllRequest(r) == [op |-> "getAll", alert |-> <<>>, refresh |-> FALSE, slot |-> r]

\* a refreshData call can start: the calls in flight are bounded, and a put
\* of handleAction is run by the database when its onRefresh() can start
SlotFree == \E r \in Slots : refreshes[r].stage = "idle"

\* the puts of handleAction that wait in the queue of the database
ActionsQueued == Cardinality({k \in 1..Len(dbQueue) : dbQueue[k].refresh})

FreeSlot == CHOOSE r \in Slots : refreshes[r].stage = "idle" /\ \A q \in Slots :
                                   refreshes[q].stage = "idle" => r <= q

\* ids of the alerts created so far
CreatedIds ==
  {a.id : a \in dbAlerts} \cup {alerts[k].id : k \in 1..Len(alerts)}
  \cup {dbQueue[k].alert.id : k \in {j \in 1..Len(dbQueue) : dbQueue[j].op = "put"}}

\* the main thread is free: no run of the detection effect is pending
MainThreadFree == ~loading /\ ~effectDue

AppSettings ==
  {[DEFAULT_SETTINGS EXCEPT !.notificationCooldownHours = 1],
   [DEFAULT_SETTINGS EXCEPT !.notificationCooldownHours = 1,
                            !.whatsappMode = "webhookAPI", !.webhookUrl = "hook"]}

AppInit ==
  /\ alerts = <<>>
  /\ dbAlerts = {}
  /\ dbQueue = <<>>
  /\ refreshes = [r \in Slots |-> IdleRefresh]
  /\ webhooks = {}
  /\ effectDue = FALSE
  /\ loading = TRUE
  /\ dbView \in {DetView("p1", f, e) : f \in BOOLEAN, e \in {<<>>, <<"L1">>}}
  /\ planningViews = <<>>
  /\ settings \in AppSettings
  /\ now = 0
  /\ existingAlerts = <<>>
  /\ calledAt = 0
  /\ newAlerts = <<>>
  /\ newAlerts2 = <<>>
  /\ detPc = "idle"
  /\ PlanIdle
  /\ StoreIdle
  /\ ConnIdle
  /\ PageIdle

AppFrame ==
  UNCHANGED <<item, lots, sales, currentDate, view, item2, view2, planPc,
              existingAlerts, calledAt, newAlerts, newAlerts2, detPc, settings,
              storeVars, connVars, pageVars>>

\* fetchData: the initial load of the stores, then loading = false
FetchData ==
  /\ loading
  /\ alerts' = getAllOf(dbAlerts)
  /\ planningViews' = <<dbView>>
  /\ loading' = FALSE
  /\ effectDue' = TRUE
  /\ UNCHANGED <<dbAlerts, dbQueue, refreshes, webhooks, dbView, now>>
  /\ AppFrame

\* the application is at rest: nothing is queued, in flight or due
Quiescent ==
  /\ MainThreadFree
  /\ dbQueue = <<>>
  /\ webhooks = {}
  /\ \A r \in Slots : refreshes[r].stage = "idle"

\* time passes (a tick is long: it is taken between two bursts of activity)
AppTick ==
  /\ Quiescent
  /\ now < MaxAppTime
  /\ now' = now + 1
  /\ UNCHANGED <<appVars, planningViews>>
  /\ AppFrame

\* faulty variant: alerts is in the dependency array, so the render after
\* setAlerts runs the effect again
EffectRun_alertsInDeps ==
  /\ ~loading
  /\ effectDue
  /\ LET currentAlerts == alerts
         found == detectAlerts(planningViews, currentAlerts, settings, now)
         uniqueAlerts == uniqueAlertsOf(found, currentAlerts, settings, now)
     IN  /\ Cardinality(CreatedIds \cup {uniqueAlerts[k].id : k \in 1..Len(uniqueAlerts)})
              <= MaxStored
         /\ dbQueue' = dbQueue \o [k \in 1..Len(uniqueAlerts) |->
                                    PutRequest(uniqueAlerts[k], FALSE)]
         /\ alerts' = alerts \o uniqueAlerts
         /\ effectDue' = (uniqueAlerts # <<>>)
  /\ UNCHANGED <<dbAlerts, refreshes, webhooks, loading, dbView, now, planningViews>>
  /\ AppFrame

\* the alert detection effect: runs after a render that changed planningViews,
\* reads the alert list through alertsRef, writes the new alerts without
\* awaiting db.put and appends them to the alert list
EffectRun ==
  /\ ~loading
  /\ effectDue
  /\ LET currentAlerts == alerts
         found == detectAlerts(planningViews, currentAlerts, settings, now)
         uniqueAlerts == uniqueAlertsOf(found, currentAlerts, settings, now)
     IN  /\ Cardinality(CreatedIds \cup {uniqueAlerts[k].id : k \in 1..Len(uniqueAlerts)})
              <= MaxStored
         /\ dbQueue' = dbQueue \o [k \in 1..Len(uniqueAlerts) |->
                                    PutRequest(uniqueAlerts[k], FALSE)]
         /\ alerts' = alerts \o uniqueAlerts
  /\ effectDue' = FALSE
  /\ UNCHANGED <<dbAlerts, refreshes, webhooks, loading, dbView, now, planningViews>>
  /\ AppFrame

\* SalesEntry.handleSave: the sales are written, then onRefresh()
SaveSales(flag) ==
  /\ MainThreadFree
  /\ SlotFree
  /\ dbView' = [dbView EXCEPT !.lowStockFlag = flag]
  /\ refreshes' = [refreshes EXCEPT ![FreeSlot] = [stage |-> "items", result |-> <<>>]]
  /\ UNCHANGED <<alerts, dbAlerts, dbQueue, webhooks, effectDue, loading, now,
                 planningViews>>
  /\ AppFrame

\* the buttons Mark as Processed and Dismiss of a pending alert: handleAction
HandleAction(i, status) ==
  /\ MainThreadFree
  /\ i \in 1..Len(alerts)
  /\ alerts[i].status = "pending"
  /\ ActionsQueued < MaxRefresh
  /\ dbQueue' = Append(dbQueue, PutRequest(updatedAlertOf(alerts[i], status, now), TRUE))
  /\ UNCHANGED <<alerts, dbAlerts, refreshes, webhooks, effectDue, loading, dbView, now,
                 planningViews>>
  /\ AppFrame

\* the WhatsApp button of a pending alert
SendWhatsApp(i) ==
  /\ MainThreadFree
  /\ settings.whatsappMode = "clickToWhatsApp"
  /\ i \in 1..Len(alerts)
  /\ alerts[i].status = "pending"
  /\ \E k \in 1..Len(planningViews) : planningViews[k].item.id = alerts[i].itemId
  /\ ActionsQueued < MaxRefresh
  /\ dbQueue' = Append(dbQueue, PutRequest(updatedAlertOf(alerts[i], "sent", now), TRUE))
  /\ UNCHANGED <<alerts, dbAlerts, refreshes, webhooks, effectDue, loading, dbView, now,
                 planningViews>>
  /\ AppFrame

\* the Webhook button of a pending alert: the fetch starts
TriggerWebhook(i) ==
  /\ MainThreadFree
  /\ settings.whatsappMode = "webhookAPI"
  /\ i \in 1..Len(alerts)
  /\ alerts[i].status = "pending"
  /\ settings.webhookUrl # ""
  /\ alerts[i] \notin webhooks
  /\ webhooks' = webhooks \cup {alerts[i]}
  /\ UNCHANGED <<alerts, dbAlerts, dbQueue, refreshes, effectDue, loading, dbView, now,
                 planningViews>>
  /\ AppFrame

\* the response of the webhook is ok: handleAction(alertObj, 'sent')
WebhookOk(alertObj) ==
  /\ MainThreadFree
  /\ alertObj \in webhooks
  /\ ActionsQueued < MaxRefresh
  /\ webhooks' = webhooks \ {alertObj}
  /\ dbQueue' = Append(dbQueue, PutRequest(updatedAlertOf(alertObj, "sent", now), TRUE))
  /\ UNCHANGED <<alerts, dbAlerts, refreshes, effectDue, loading, dbView, now,
                 planningViews>>
  /\ AppFrame

\* the webhook fails: only a toast
WebhookFail(alertObj) ==
  /\ MainThreadFree
  /\ alertObj \in webhooks
  /\ webhooks' = webhooks \ {alertObj}
  /\ UNCHANGED <<alerts, dbAlerts, dbQueue, refreshes, effectDue, loading, dbView, now,
                 planningViews>>
  /\ AppFrame

\* the database runs the oldest request on the alerts store; a put of
\* handleAction is followed by onRefresh(), a getAll hands its result to the
\* refreshData call that issued it
DbStep ==
  /\ dbQueue # <<>>
  /\ (Head(dbQueue).op = "put" /\ Head(dbQueue).refresh) => SlotFree
  /\ LET h == Head(dbQueue)
     IN  IF h.op = "put"
         THEN /\ dbAlerts' = PutInto(dbAlerts, h.alert)
              /\ refreshes' = IF h.refresh
                              THEN [refreshes EXCEPT ![FreeSlot] =
                                      [stage |-> "items", result |-> <<>>]]
                              ELSE refreshes
         ELSE /\ dbAlerts' = dbAlerts
              /\ refreshes' = [refreshes EXCEPT ![h.slot] =
                                 [stage |-> "got", result |-> getAllOf(dbAlerts)]]
  /\ dbQueue' = Tail(dbQueue)
  /\ UNCHANGED <<alerts, webhooks, effectDue, loading, dbView, now, planningViews>>
  /\ AppFrame

\* refreshData: setItems(await db.getAll('items'))
RefreshSetItems(r) ==
  /\ MainThreadFree
  /\ refreshes[r].stage = "items"
  /\ refreshes' = [refreshes EXCEPT ![r].stage = "lots"]
  /\ effectDue' = TRUE
  /\ UNCHANGED <<alerts, dbAlerts, dbQueue, webhooks, loading, dbView, now, planningViews>>
  /\ AppFrame

\* refreshData: setLots(await db.getAll('lots'))
RefreshSetLots(r) ==
  /\ MainThreadFree
  /\ refreshes[r].stage = "lots"
  /\ refreshes' = [refreshes EXCEPT ![r].stage = "sales"]
  /\ effectDue' = TRUE
  /\ UNCHANGED <<alerts, dbAlerts, dbQueue, webhooks, loading, dbView, now, planningViews>>
  /\ AppFrame

\* refreshData: setSales(await db.getAll('sales')), and db.getAll('alerts') is
\* issued in the same continuation, before the next render and its effects
RefreshSetSales(r) ==
  /\ MainThreadFree
  /\ refreshes[r].stage = "sales"
  /\ refreshes' = [refreshes EXCEPT ![r].stage = "alerts"]
  /\ planningViews' = <<dbView>>
  /\ effectDue' = TRUE
  /\ dbQueue' = Append(dbQueue, GetAllRequest(r))
  /\ UNCHANGED <<alerts, dbAlerts, webhooks, loading, dbView, now>>
  /\ AppFrame

\* refreshData: setAlerts(await db.getAll('alerts'))
RefreshSetAlerts(r) ==
  /\ MainThreadFree
  /\ refreshes[r].stage = "got"
  /\ alerts' = refreshes[r].result
  /\ refreshes' = [refreshes EXCEPT ![r] = IdleRefresh]
  /\ UNCHANGED <<dbAlerts, dbQueue, webhooks, effectDue, loading, dbView, now,
                 planningViews>>
  /\ AppFrame

AppNext ==
  \/ FetchData
  \/ AppTick
  \/ EffectRun
  \/ \E flag \in BOOLEAN : SaveSales(flag)
  \/ \E i \in 1..MaxStored, status \in {"sent", "dismissed"} : HandleAction(i, status)
  \/ \E i \in 1..MaxStored : SendWhatsApp(i)
  \/ \E i \in 1..MaxStored : TriggerWebhook(i)
  \/ \E alertObj \in webhooks : WebhookOk(alertObj)
  \/ \E alertObj \in webhooks : WebhookFail(alertObj)
  \/ DbStep
  \/ \E r \in Slots : RefreshSetItems(r)
  \/ \E r \in Slots : RefreshSetLots(r)
  \/ \E r \in Slots : RefreshSetSales(r)
  \/ \E r \in Slots : RefreshSetAlerts(r)

SpecApp == AppInit /\ [][AppNext]_vars

\* the application without the Alerts page: the data changes through Sales
\* Entry, is reloaded by refreshData, and the detection effect runs
EffectNext ==
  \/ FetchData
  \/ AppTick
  \/ EffectRun
  \/ \E flag \in BOOLEAN : SaveSales(flag)
  \/ DbStep
  \/ \E r \in Slots : RefreshSetItems(r)
  \/ \E r \in Slots : RefreshSetLots(r)
  \/ \E r \in Slots : RefreshSetSales(r)
  \/ \E r \in Slots : RefreshSetAlerts(r)

SpecEffect == AppInit /\ [][EffectNext]_vars

\* --------------------------------------------------- claims on the application
\* C7: the status of a stored alert changes only from pending (to sent or to
\* dismissed); a sent or dismissed alert keeps its status.
C7_StatusOnlyLeavesPending ==
  [][\A a \in dbAlerts : \A b \in dbAlerts' :
       (a.id = b.id /\ a.status # b.status) => a.status = "pending"]_vars

\* C8: the alert list never holds two pending alerts of the same product and type.
C8_NoDuplicatePending ==
  \A i, j \in 1..Len(alerts) :
    (/\ alerts[i].status = "pending"
     /\ alerts[j].status = "pending"
     /\ alerts[i].itemId = alerts[j].itemId
     /\ alerts[i].type = alerts[j].type) => i = j


\* C16: the detection effect does not trigger itself. Once the data is loaded,
\* a step that changes the alert list (the setAlerts of the effect or of
\* refreshData) never makes a run of the effect due, and a run of the effect
\* leaves none due: the effect runs once for each load of items, lots or sales.
C16_EffectNotRetriggered ==
  [][/\ (~loading /\ alerts' # alerts) => ~effectDue'
     /\ (~loading /\ effectDue /\ ~effectDue') => planningViews' = planningViews]_vars

\* C16 witness: the effect has added a new alert to the alert list after a
\* reload, and no run of the effect is due.
C16_Witness ==
  /\ ~loading
  /\ ~effectDue
  /\ Len(alerts) > Cardinality(dbAlerts)
  /\ \E r \in Slots : refreshes[r].stage = "alerts"

\* the alerts a run of the detection effect adds: appended to the alert list
\* (and put in the queue of the database)
CreatedByStep ==
  IF /\ effectDue
     /\ ~effectDue'
     /\ Len(alerts') > Len(alerts)
     /\ SubSeq(alerts', 1, Len(alerts)) = alerts
  THEN {alerts'[k] : k \in (Len(alerts) + 1)..Len(alerts')}
  ELSE {}

\* the alerts the user has dismissed: written, or on their way to the database
DismissedAlerts ==
  {a \in dbAlerts \cup {dbQueue[k].alert : k \in {j \in 1..Len(dbQueue) : dbQueue[j].op = "put"}} :
     a.status = "dismissed"}

\* the alert is pending, or its lastSentAt, or createdAt when it has none, is
\* less than notificationCooldownHours hours old
PendingOrRecent(a) ==
  \/ a.status = "pending"
  \/ now - (IF a.lastSentAt # NULL THEN a.lastSentAt ELSE a.createdAt)
       < settings.notificationCooldownHours * HourTicks

\* the first half of C26: a new alert is persisted and merged into the alert
\* list only if the alert list holds no pending or recent alert of its product
\* and type
MergedOnlyIfNotRecent ==
  [][\A na \in CreatedByStep :
       /\ \E k \in 1..Len(alerts') : alerts'[k] = na
       /\ \E k \in 1..Len(dbQueue') : dbQueue'[k].op = "put" /\ dbQueue'[k].alert = na
       /\ \A k \in 1..Len(alerts) :
            (alerts[k].itemId = na.itemId /\ alerts[k].type = na.type)
              => ~PendingOrRecent(alerts[k])]_vars

\* C26: in the application a new alert returned by detectAlerts is persisted
\* and merged into the alert list only if the alert list holds no alert of its
\* product and type that is pending or whose lastSentAt, or createdAt when
\* lastSentAt is absent, is less than notificationCooldownHours hours old; so
\* after the user has dismissed an alert, no new alert of that product and type
\* is added until the cooldown counted from its createdAt has elapsed.
C26_NoNewAlertAfterDismissal ==
  [][\A na \in CreatedByStep :
       /\ \A k \in 1..Len(alerts) :
            (alerts[k].itemId = na.itemId /\ alerts[k].type = na.type)
              => ~PendingOrRecent(alerts[k])
       /\ \A d \in DismissedAlerts :
            (d.itemId = na.itemId /\ d.type = na.type)
              => now - d.createdAt >= settings.notificationCooldownHours * HourTicks]_vars

\* ------------------------------------------------ AgriDB: the cached connection
Methods == {"getAll", "put", "delete"}

Callers == 1..MaxCalls

IdleCall == [stage |-> "idle", conn |-> NULL]

ConnInit ==
  /\ AppIdle
  /\ settings = DEFAULT_SETTINGS
  /\ PlanIdle
  /\ DetIdle

ConnFrame ==
  UNCHANGED <<planVars, detVars, storeVars, pageVars, alerts, dbAlerts, dbQueue,
              refreshes, webhooks, effectDue, loading, dbView>>

\* getAll, put or delete up to `await this.init()`: init() opens the database
\* when no promise is cached, caches the promise and returns the cached promise
Call(c, method) ==
  /\ calls[c].stage = "idle"
  /\ IF dbPromise = NULL
     THEN /\ Len(opens) < MaxOpens
          /\ opens' = Append(opens, "pending")
          /\ dbPromise' = Len(opens) + 1
     ELSE UNCHANGED <<opens, dbPromise>>
  /\ calls' = [calls EXCEPT ![c] = [stage |-> method, conn |-> dbPromise']]
  /\ ConnFrame

\* request.onsuccess: resolve(request.result)
OpenSuccess(k) ==
  /\ opens[k] = "pending"
  /\ opens' = [opens EXCEPT ![k] = "success"]
  /\ UNCHANGED <<dbPromise, calls>>
  /\ ConnFrame

\* faulty variant: the failed promise stays cached
OpenError_keepsPromise(k) ==
  /\ opens[k] = "pending"
  /\ opens' = [opens EXCEPT ![k] = "error"]
  /\ UNCHANGED <<dbPromise, calls>>
  /\ ConnFrame

\* request.onerror: this.dbPromise = null; reject(request.error)
OpenError(k) ==
  /\ opens[k] = "pending"
  /\ opens' = [opens EXCEPT ![k] = "error"]
  /\ dbPromise' = NULL
  /\ UNCHANGED calls
  /\ ConnFrame

\* the awaited promise is fulfilled: the call starts its transaction on the
\* connection
Resume(c) ==
  /\ calls[c].stage \in Methods
  /\ opens[calls[c].conn] = "success"
  /\ calls' = [calls EXCEPT ![c].stage = "transaction"]
  /\ UNCHANGED <<dbPromise, opens>>
  /\ ConnFrame

\* the awaited promise is rejected: the call fails
Reject(c) ==
  /\ calls[c].stage \in Methods
  /\ opens[calls[c].conn] = "error"
  /\ calls' = [calls EXCEPT ![c] = IdleCall]
  /\ UNCHANGED <<dbPromise, opens>>
  /\ ConnFrame

\* the request of the transaction succeeds or fails: the call returns
Finish(c) ==
  /\ calls[c].stage = "transaction"
  /\ calls' = [calls EXCEPT ![c] = IdleCall]
  /\ UNCHANGED <<dbPromise, opens>>
  /\ ConnFrame

ConnNext ==
  \/ \E c \in Callers, method \in Methods : Call(c, method)
  \/ \E k \in 1..Len(opens) : OpenSuccess(k)
  \/ \E k \in 1..Len(opens) : OpenError(k)
  \/ \E c \in Callers : Resume(c)
  \/ \E c \in Callers : Reject(c)
  \/ \E c \in Callers : Finish(c)

SpecConn == ConnInit /\ [][ConnNext]_vars

\* the open requests that are pending or have succeeded
LiveOpens == {k \in 1..Len(opens) : opens[k] \in {"pending", "success"}}

\* a call is in flight
InFlight(c) == calls[c].stage # "idle"

C17_State ==
  /\ Cardinality(LiveOpens) <= 1
  /\ dbPromise # NULL => dbPromise \in LiveOpens
  /\ \A c \in Callers :
       /\ InFlight(c) => (calls[c].conn = dbPromise \/ opens[calls[c].conn] = "error")
       /\ calls[c].stage = "transaction" =>
            (calls[c].conn = dbPromise /\ opens[dbPromise] = "success")

C17_Step ==
  \A c \in Callers :
    (~InFlight(c) /\ calls'[c].stage # "idle") =>
      /\ calls'[c].conn = dbPromise'
      /\ opens'[dbPromise'] # "error"
      /\ IF LiveOpens = {} THEN opens' = Append(opens, "pending") ELSE opens' = opens

\* C17: at most one open request is pending or succeeded at any time, every
\* call awaits and uses the connection of that request (a call that awaits
\* another request awaits a failed one and will be rejected), a failed request
\* is never left cached, and a call issues a new open exactly when no open
\* request is pending or succeeded.
C17_OneConnection == []C17_State /\ [][C17_Step]_vars

\* C17 witness: the first open failed, a later call opened the database again,
\* and now one call runs its transaction on the second connection while
\* another call, made after the first, awaits the same cached promise.
C17_Witness ==
  /\ Len(opens) = 2
  /\ opens[1] = "error"
  /\ opens[2] = "success"
  /\ dbPromise = 2
  /\ \E c, d \in Callers :
       /\ calls[c].stage = "transaction"
       /\ calls[d].stage \in Methods
       /\ calls[d].conn = 2

\* ------------------------------------- Sales Entry and the Excel imports
\* the characters of the product names of the model
Chars == {"a", "A", "b", " "}

\* name.replace(/\s+/g, ' ')
RECURSIVE collapseSpaces(_)
collapseSpaces(name) ==
  IF Len(name) < 2 THEN name
  ELSE IF name[1] = " " /\ name[2] = " " THEN collapseSpaces(Tail(name))
  ELSE <<name[1]>> \o collapseSpaces(Tail(name))

\* String.prototype.trim
RECURSIVE trim(_)
trim(name) ==
  IF name = <<>> THEN name
  ELSE IF Head(name) = " " THEN trim(Tail(name))
  ELSE IF name[Len(name)] = " " THEN trim(SubSeq(name, 1, Len(name) - 1))
  ELSE name

normalizeName(name) == trim(collapseSpaces(name))

toLowerCase(name) == [i \in 1..Len(name) |-> IF name[i] = "A" THEN "a" ELSE name[i]]

\* the value of uid(): no two calls return the same string
Uid(n) == [kind |-> "uid", n |-> n, month |-> 0]

\* `${itemId}_${m}`, the id of a record written by Sales Entry
EntryId(itemId, m) == [kind |-> "entry", n |-> itemId.n, month |-> m]

\* the place of a key in the order of the keys of a store: uid() starts with
\* the time of creation, so uid keys are in creation order; the keys of Sales
\* Entry are put after them, by product and month (no handler reads the order)
IdKey(id) == (IF id.kind = "uid" THEN 0 ELSE 1000) + 10 * id.n + id.month

\* db.getAll of the items, lots or sales store: the records in key order
RECURSIVE getAllById(_)
getAllById(store) ==
  IF store = {} THEN <<>>
  ELSE LET least == CHOOSE j \in {IdKey(x.id) : x \in store} :
                      \A x \in store : j <= IdKey(x.id)
           first == CHOOSE x \in store : IdKey(x.id) = least
       IN  <<first>> \o getAllById(store \ {first})

\* the six month keys of Sales Entry, oldest first; 6 is the current month
MonthKeys == 1..6

\* the names in the first column of the imported files
RawNames == {<<"a">>, <<"A">>, <<"a", " ", " ", "b">>}

FileRows == [name : RawNames, quantity : {0, 4}]

Files == SeqsUpTo(FileRows, MaxRows) \ {<<>>}

\* handleStockFile / handleSalesFile: the parsed rows, name: normalizeName(name)
parsedRows(file) ==
  [k \in 1..Len(file) |->
     [name |-> normalizeName(trim(file[k].name)), quantity |-> file[k].quantity]]

\* items.find(i => normalizeName(i.name).toLowerCase() === row.name.toLowerCase()):
\* the position of the item found, 0 if none
findItem(its, name) ==
  LET found == {k \in 1..Len(its) :
                  toLowerCase(normalizeName(its[k].name)) = toLowerCase(name)}
  IN  IF found = {} THEN 0 ELSE CHOOSE k \in found : \A j \in found : k <= j

\* Math.round(quantity / months)
monthlyQtyOf(quantity, months) == (2 * quantity + months) \div (2 * months)

\* the loop of saveStockImport over the rows: `its` is the items prop, st the
\* stores and the uid() reached
RECURSIVE stockImportLoop(_, _, _)
stockImportLoop(rows, its, st) ==
  IF rows = <<>> THEN st
  ELSE LET row == Head(rows)
           existing == findItem(its, row.name)
           itemId == IF existing # 0 THEN its[existing].id ELSE Uid(st.nextUid)
           st1 == IF existing # 0 THEN st
                  ELSE [st EXCEPT !.dbItems = PutInto(@, [id |-> itemId, name |-> row.name]),
                                  !.nextUid = @ + 1]
           newLot == [id |-> Uid(st1.nextUid), itemId |-> itemId, expiryDate |-> NULL,
                      quantityRemaining |-> row.quantity, status |-> "available"]
           st2 == IF row.quantity > 0
                  THEN [st1 EXCEPT !.dbLots = PutInto(@, newLot), !.nextUid = @ + 1]
                  ELSE st1
       IN  stockImportLoop(Tail(rows), its, st2)

\* the loop over the months m..months-1 of one row of saveSalesImport
RECURSIVE salesMonthsLoop(_, _, _, _, _, _)
salesMonthsLoop(m, months, itemId, monthlyQty, sls, st) ==
  IF m >= months THEN st
  ELSE LET mk == 6 - (months - 1 - m)
           existingSale == \E k \in 1..Len(sls) : sls[k].itemId = itemId /\ sls[k].month = mk
           newSale == [id |-> Uid(st.nextUid), itemId |-> itemId, month |-> mk,
                       quantitySold |-> monthlyQty]
           st1 == IF existingSale THEN st
                  ELSE [st EXCEPT !.dbSales = PutInto(@, newSale), !.nextUid = @ + 1]
       IN  salesMonthsLoop(m + 1, months, itemId, monthlyQty, sls, st1)

\* the loop of saveSalesImport over the rows: `its` is the local items, which
\* the loop extends; sls is the sales prop
RECURSIVE salesImportLoop(_, _, _, _, _)
salesImportLoop(rows, its, sls, months, st) ==
  IF rows = <<>> THEN st
  ELSE LET row == Head(rows)
           existing == findItem(its, row.name)
           itemId == IF existing # 0 THEN its[existing].id ELSE Uid(st.nextUid)
           newItem == [id |-> itemId, name |-> row.name]
           st1 == IF existing # 0 THEN st
                  ELSE [st EXCEPT !.dbItems = PutInto(@, newItem), !.nextUid = @ + 1]
           its1 == IF existing # 0 THEN its ELSE Append(its, newItem)
           monthlyQty == monthlyQtyOf(row.quantity, months)
           st2 == IF monthlyQty <= 0 THEN st1
                  ELSE salesMonthsLoop(0, months, itemId, monthlyQty, sls, st1)
       IN  salesImportLoop(Tail(rows), its1, sls, months, st2)

\* the stores and the uid() as the handlers see them
StoresNow ==
  [dbItems |-> dbItems, dbLots |-> dbLots, dbSales |-> dbSales, nextUid |-> nextUid]

\* a product that exists before any import (entered on the Items page)
FirstItems ==
  {{}, {[id |-> Uid(0), name |-> <<"A">>]},
   {[id |-> Uid(0), name |-> <<"a", " ", " ", "b">>]}}

ImportInit ==
  /\ dbItems \in FirstItems
  /\ items = getAllById(dbItems)
  /\ dbLots = {}
  /\ dbSales = {}
  /\ nextUid = 1
  /\ ConnIdle
  /\ ShellIdle
  /\ PageIdle
  /\ DetIdle
  /\ settings = DEFAULT_SETTINGS
  /\ PlanIdle

ImportFrame ==
  UNCHANGED <<item, settings, currentDate, view, item2, view2, planPc, detVars,
              alerts, dbAlerts, dbQueue, refreshes, webhooks, effectDue, loading,
              dbView, connVars, pageVars>>

\* the stores after a handler, and refreshData: items, lots and sales reloaded
StoresBecome(after) ==
  \E st \in {after} :
    /\ st.nextUid - 1 <= MaxIds
    /\ dbItems' = st.dbItems
    /\ dbLots' = st.dbLots
    /\ dbSales' = st.dbSales
    /\ nextUid' = st.nextUid
    /\ items' = getAllById(st.dbItems)
    /\ lots' = getAllById(st.dbLots)
    /\ sales' = getAllById(st.dbSales)
    /\ ImportFrame

\* a stocktake worksheet is parsed and saved: saveStockImport, then onRefresh()
SaveStockImport(file) ==
  /\ Len(parsedRows(file)) > 0
  /\ StoresBecome(stockImportLoop(parsedRows(file), items, StoresNow))

\* a sales report over `months` months is parsed and saved: saveSalesImport,
\* then onRefresh()
SaveSalesImport(file, months) ==
  /\ Len(parsedRows(file)) > 0
  /\ StoresBecome(salesImportLoop(parsedRows(file), items, sales, months, StoresNow))

\* the puts of SalesEntry.handleSave for the months m..6
RECURSIVE handleSavePuts(_, _, _, _)
handleSavePuts(m, itemId, quantity, store) ==
  IF m > 6 THEN store
  ELSE handleSavePuts(m + 1, itemId, quantity,
                      PutInto(store, [id |-> EntryId(itemId, m), itemId |-> itemId,
                                      month |-> m, quantitySold |-> quantity]))

\* SalesEntry.handleSave for the product at position p, every month set to
\* quantity, then onRefresh()
HandleSave(p, quantity) ==
  /\ p \in 1..Len(items)
  /\ StoresBecome([StoresNow EXCEPT
                     !.dbSales = handleSavePuts(1, items[p].id, quantity, @)])

ImportNext ==
  \/ \E file \in Files : SaveStockImport(file)
  \/ \E file \in Files, months \in {1, 2} : SaveSalesImport(file, months)
  \/ \E p \in 1..MaxIds, quantity \in {0, 5} : HandleSave(p, quantity)

SpecImport == ImportInit /\ [][ImportNext]_vars

\* C15: the sales store holds at most one record for each product and month.
C15_OneRecordPerProductAndMonth ==
  \A a, b \in dbSales : (a.itemId = b.itemId /\ a.month = b.month) => a = b

\* the name as the importer compares it
NameKey(name) == toLowerCase(normalizeName(name))

\* C18: no two products have the same normalized name, compared
\* case-insensitively (none have in the first state).
C18_NoDuplicateProduct ==
  \A a, b \in dbItems : NameKey(a.name) = NameKey(b.name) => a = b

\* ------------------------------------------------ Settings page: edits of fields
\* the inputs edited and the value typed into each
EditedFields == {"safetyStockDays", "reviewPeriodDays", "lowStockRule"}

EditedValue(field) ==
  IF field = "safetyStockDays" THEN 0
  ELSE IF field = "reviewPeriodDays" THEN 1
  ELSE "belowReorderPoint"

\* the weight inputs edited (oldest and newest month) and the value typed
EditedWeights == {1, 6}

\* the settings have been loaded (none were stored), the Settings page is shown
PageInit ==
  /\ settings = DEFAULT_SETTINGS
  /\ dbSettings = {}
  /\ settingsCalls = <<>>
  /\ alerts = <<>>
  /\ dbAlerts = {}
  /\ dbQueue = <<>>
  /\ refreshes = <<>>
  /\ webhooks = {}
  /\ effectDue = FALSE
  /\ loading = FALSE
  /\ dbView = [item |-> [id |-> "p1"], lowStockFlag |-> FALSE, expiringSoonLots |-> <<>>]
  /\ StoreIdle
  /\ ConnIdle
  /\ PlanIdle
  /\ DetIdle

PageFrame ==
  UNCHANGED <<item, lots, sales, currentDate, view, item2, view2, planPc, detVars,
              alerts, dbAlerts, dbQueue, refreshes, webhooks, effectDue, loading,
              dbView, storeVars, connVars>>

\* updateSettings(newSettings) up to `await db.put(...)`: the put is issued
UpdateSettings(newSettings) ==
  /\ Len(settingsCalls) < MaxEdits
  /\ settingsCalls' = Append(settingsCalls, [newSettings |-> newSettings, stage |-> "put"])
  /\ UNCHANGED <<settings, dbSettings>>
  /\ PageFrame

\* handleChange(field, value): onUpdate({ ...settings, [field]: value }), with
\* the settings the page was rendered from
HandleChange(field, value) ==
  /\ ~loading
  /\ UpdateSettings([settings EXCEPT ![field] = value])

\* updateWeight(idx, val): a copy of settings.weights with one weight replaced
UpdateWeight(idx, val) ==
  /\ ~loading
  /\ UpdateSettings([settings EXCEPT !.weights = [settings.weights EXCEPT ![idx] = val]])

\* the database runs the oldest put that is waiting: store.put on the settings
\* store, where every record has the key 'global'
SettingsPut ==
  /\ \E k \in 1..Len(settingsCalls) :
       /\ settingsCalls[k].stage = "put"
       /\ \A j \in 1..(k - 1) : settingsCalls[j].stage = "stored"
       /\ dbSettings' = {settingsCalls[k].newSettings}
       /\ settingsCalls' = [settingsCalls EXCEPT ![k].stage = "stored"]
  /\ UNCHANGED settings
  /\ PageFrame

\* updateSettings after the await: setSettings(newSettings), and the page is
\* rendered again
SetSettings ==
  /\ settingsCalls # <<>>
  /\ Head(settingsCalls).stage = "stored"
  /\ settings' = Head(settingsCalls).newSettings
  /\ settingsCalls' = Tail(settingsCalls)
  /\ UNCHANGED dbSettings
  /\ PageFrame

PageNext ==
  \/ \E field \in EditedFields : HandleChange(field, EditedValue(field))
  \/ \E idx \in EditedWeights : UpdateWeight(idx, 0)
  \/ SettingsPut
  \/ SetSettings

SpecPage == PageInit /\ [][PageNext]_vars

\* the fields in which two settings differ
ChangedFields(a, b) == {f \in DOMAIN a : a[f] # b[f]}

\* C30: a settings edit changes only the edited field. For every interleaving
\* of the edits of the Settings page with updateSettings, each edit that
\* reaches the settings in memory or the stored settings changes one field and
\* leaves the value of every other field, so an earlier edit is never
\* overwritten by a later edit of a different field.
C30_EditChangesOnlyItsField ==
  [][/\ Cardinality(ChangedFields(settings, settings')) <= 1
     /\ \A a \in dbSettings, b \in dbSettings' :
          Cardinality(ChangedFields(a, b)) <= 1]_vars
====
